---- MODULE Spec2Model ----
(***************************************************************************)
(* A model of the argus backend core: the deduplicating signal store       *)
(* (app/core/signals.py, app/tasks/detect_signals.py) and the concurrent   *)
(* screening pipeline (app/core/screener.py) with its cache.               *)
(*                                                                         *)
(* Conventions.  An optional value (Python None | v) is a sequence: <<>>   *)
(* is None and <<v>> is the value v.  Prices are integers in cents,        *)
(* percentages are integers in hundredths of a percent (the code rounds    *)
(* both to 2 decimals), time is in hours.  Strings that the code compares  *)
(* with < (symbol, name) are sequences of character codes.                 *)
(***************************************************************************)
EXTENDS Integers, Sequences, FiniteSets, Bags, TLC

None == <<>>
Some(v) == <<v>>

(***************************************************************************)
(* Part I.  Signal store and save_signal                                   *)
(***************************************************************************)

\* save_signal(db, signal, dedupe_hours=24): the default dedupe window, hours.
DedupeHours == 24

\* Bounds of the exploration.
MaxClock == 36
MaxSaveCalls == 3
MaxStorageFaults == 1

\* The clock advances in steps of these many hours.
ClockSteps == {12}

\* The two scheduler jobs that run detect_all_signals; each has max_instances=1,
\* so at most one sweep per job is running, and the two jobs may overlap.
Jobs == {"detect_signals", "detect_signals_close"}

\* Symbols of the universe the sweeps run over.
SweepSymbols == {<<65, 65>>, <<77, 83>>}

\* One task per (job, symbol): detect_signals_for_stock(symbol) of that job's
\* sweep; a behaviour follows one sweep of each job.
SaveTasks == Jobs \X SweepSymbols

\* Signal types that the detectors emit (SignalType values).
EmittedTypes == {"ma_crossover_bullish", "rsi_oversold"}

\* The batches detect_all_signals may hand to the save loop, MA crossovers
\* first: the same crossover type can occur twice (two MA windows firing it).
Batches ==
    {<<a>> : a \in EmittedTypes}
        \cup {<<"ma_crossover_bullish", b>> : b \in EmittedTypes}

VARIABLES
    now,        \* the wall clock, datetime.now(timezone.utc), in hours
    signals,    \* the signals table: a bag of SignalRecord rows
    stask,      \* per sweep task: position in detect_signals_for_stock / save_signal
    saveCalls,  \* number of save_signal calls started so far
    faults      \* number of storage failures injected so far

sigVars == <<now, signals, stask, saveCalls, faults>>

VARIABLES
    universe,   \* the stock_universe table: rows in table order
    market,     \* the provider's data: symbol -> bar series and quote
    cache,      \* the cache store: key -> JSON payload
    cacheUp,    \* whether the cache store answers (CacheService._redis usable)
    spc,        \* position of the screen() call
    request,    \* the ScreenerRequest of the call
    tasks,      \* the process_with_limit tasks of the call, in gather order
    sem,        \* the value of the call's asyncio.Semaphore
    pending,    \* the response and cache_data computed, before cache set returns
    response,   \* what the last screen() call returned
    history,    \* the calls returned so far: request, response, what was stored
    runs,       \* number of screen() calls so far
    pfaults     \* number of provider / cache failures injected so far

scrVars ==
    <<universe, market, cache, cacheUp, spc, request, tasks, sem, pending,
      response, history, runs, pfaults>>

VARIABLES
    cpc,        \* position of the get_stock_chart call
    creq,       \* its query parameters
    chist,      \* the provider's daily history of the symbol, oldest first
    cfull,      \* full_ohlcv, the bars the call fetched
    cchart,     \* the ChartData the call built
    cresult     \* how the call ended: the chart returned, or the error raised

chVars == <<cpc, creq, chist, cfull, cchart, cresult>>

\* No get_stock_chart call is running and none has run.
ChIdle ==
    /\ cpc = "idle"
    /\ creq = <<>>
    /\ chist = <<>>
    /\ cfull = <<>>
    /\ cchart = <<>>
    /\ cresult = <<>>

\* Bound of the exploration: calls of the universe manager in one behaviour.
MaxUniverseCalls == 3

\* The calls of the universe manager.
UniverseCalls == 1..MaxUniverseCalls

VARIABLES
    ucalls,     \* per universe-manager call: operation, position, locals
    removed,    \* symbols for which remove_stock has returned True
    sweep,      \* per scheduler job: the totals of its detect_all_signals run
    dpc,        \* position of one detect_all_signals run, seen for its fan-out
    dtasks,     \* its process_stock tasks, in gather order
    dsem,       \* the value of its asyncio.Semaphore
    sessions    \* the AsyncSessionLocal() sessions of the run, by who opened them

opsVars == <<ucalls, removed, sweep, dpc, dtasks, dsem, sessions>>

\* A universe-manager call that has not started.
IdleCall ==
    [op |-> "none", pc |-> "idle", symbol |-> <<>>, stocks |-> <<>>,
     result |-> None, after |-> {}]

\* detect_all_signals before its results are summed up.
RunningSweep ==
    [pc |-> "running", signals_detected |-> 0, signals_saved |-> 0,
     errors |-> 0]

\* No universe-manager call has started and no sweep has summed up.
OpsIdle ==
    /\ ucalls = [c \in UniverseCalls |-> IdleCall]
    /\ removed = {}
    /\ sweep = [j \in Jobs |-> RunningSweep]
    /\ dpc = "idle"
    /\ dtasks = <<>>
    /\ dsem = 0
    /\ sessions = <<>>

VARIABLES
    fname,      \* the function last called on its own, "none" before any
    farg,       \* the arguments of that call
    fret        \* what the call returned

fnVars == <<fname, farg, fret>>

\* No function has been called on its own.
FnIdle ==
    /\ fname = "none"
    /\ farg = <<>>
    /\ fret = <<>>

\* A SignalRecord row; the uuid primary key is what makes two equal rows two
\* rows, which the bag's multiplicity stands for.
SignalRow(symbol, signal_type, timestamp) ==
    [symbol |-> symbol, signal_type |-> signal_type, timestamp |-> timestamp]

\* Number of rows a bag holds that satisfy P.
RECURSIVE BagCount(_, _)
BagCount(B, S) ==
    IF S = {} THEN 0
    ELSE LET r == CHOOSE x \in S : TRUE
         IN CopiesIn(r, B) + BagCount(B, S \ {r})

\* A mutant of FindSignal: the window test is strict (timestamp > since).
FindSignalStrict(store, symbol, signal_type, since) ==
    {r \in BagToSet(store) :
        /\ r.symbol = symbol
        /\ r.signal_type = signal_type
        /\ r.timestamp > since}

\* A mutant of FindSignal: the type is not compared.
FindSignalAnyType(store, symbol, signal_type, since) ==
    {r \in BagToSet(store) :
        /\ r.symbol = symbol
        /\ r.timestamp >= since}

\* select(SignalRecord).where(symbol == .., signal_type == .., timestamp >= since)
FindSignal(store, symbol, signal_type, since) ==
    {r \in BagToSet(store) :
        /\ r.symbol = symbol
        /\ r.signal_type = signal_type
        /\ r.timestamp >= since}

\* Number of rows the select returns.
FindSignalCount(store, symbol, signal_type, since) ==
    BagCount(store, FindSignal(store, symbol, signal_type, since))

\* since = datetime.now(timezone.utc) - timedelta(hours=dedupe_hours)
SinceOf(clock) == clock - DedupeHours

\* db.add(signal_record); await db.commit()
InsertSignal(store, row) == store (+) SetToBag({row})

IdleTask ==
    [pc |-> "idle", batch |-> <<>>, idx |-> 0, since |-> 0, ts |-> 0,
     saved |-> 0, ret |-> None]

\* detect_signals_for_stock has returned (detected, saved); its locals are gone.
ReturnedTask(pc, detected, saved) ==
    [IdleTask EXCEPT !.pc = pc, !.ret = Some(<<detected, saved>>)]

SigInit ==
    /\ now = 0
    /\ signals = EmptyBag
    /\ stask = [t \in SaveTasks |-> IdleTask]
    /\ saveCalls = 0
    /\ faults = 0

\* The clock advances.
Tick ==
    /\ \E d \in ClockSteps :
        /\ now + d <= MaxClock
        /\ now' = now + d
    /\ UNCHANGED <<signals, stask, saveCalls, faults>>
    /\ UNCHANGED scrVars
    /\ UNCHANGED chVars
    /\ UNCHANGED fnVars
    /\ UNCHANGED opsVars

\* After a save_signal call of task t returned: the loop of
\* detect_signals_for_stock goes on to the next signal of the batch, whose
\* save_signal call computes `since` right away, or leaves the session and
\* returns (detected, saved).
AfterCall(t, saved) ==
    LET s == stask[t] IN
    IF s.idx < Len(s.batch)
    THEN [s EXCEPT !.pc = "execute", !.idx = s.idx + 1, !.since = SinceOf(now),
                   !.ts = 0, !.saved = saved]
    ELSE ReturnedTask("done", Len(s.batch), saved)

\* detect_signals_for_stock up to the first save_signal call: the detectors
\* produced a non-empty batch, the task opens its own session and calls
\* save_signal for the first signal.
DetectBatch(t) ==
    /\ stask[t].pc = "idle"
    /\ \E b \in Batches :
        /\ saveCalls + Len(b) <= MaxSaveCalls
        /\ saveCalls' = saveCalls + Len(b)
        /\ stask' = [stask EXCEPT ![t] =
                        [pc |-> "execute", batch |-> b, idx |-> 1,
                         since |-> SinceOf(now), ts |-> 0, saved |-> 0,
                         ret |-> None]]
    /\ UNCHANGED <<now, signals, faults>>
    /\ UNCHANGED scrVars
    /\ UNCHANGED chVars
    /\ UNCHANGED fnVars
    /\ UNCHANGED opsVars

\* await db.execute(select ...) of save_signal completes; scalar_one_or_none
\* raises MultipleResultsFound on more than one row (the exception leaves
\* save_signal and detect_signals_for_stock returns (0, 0)), and returns the
\* row or None otherwise.  A duplicate returns None without touching the
\* store; otherwise the timestamp is taken and the row is added, pending the
\* commit.
SaveExecute(t) ==
    LET s == stask[t]
        n == FindSignalCount(signals, t[2], s.batch[s.idx], s.since)
    IN
    /\ s.pc = "execute"
    /\ stask' = [stask EXCEPT ![t] =
                    IF n > 1
                    THEN ReturnedTask("failed", 0, 0)
                    ELSE IF n = 1
                    THEN AfterCall(t, s.saved)
                    ELSE [s EXCEPT !.pc = "commit", !.ts = now]]
    /\ UNCHANGED <<now, signals, saveCalls, faults>>
    /\ UNCHANGED scrVars
    /\ UNCHANGED chVars
    /\ UNCHANGED fnVars
    /\ UNCHANGED opsVars

\* await db.commit() of save_signal completes: the row is in the table and the
\* call returns the Signal.
SaveCommit(t) ==
    LET s == stask[t] IN
    /\ s.pc = "commit"
    /\ signals' = InsertSignal(signals, SignalRow(t[2], s.batch[s.idx], s.ts))
    /\ stask' = [stask EXCEPT ![t] = AfterCall(t, s.saved + 1)]
    /\ UNCHANGED <<now, saveCalls, faults>>
    /\ UNCHANGED scrVars
    /\ UNCHANGED chVars
    /\ UNCHANGED fnVars
    /\ UNCHANGED opsVars

\* The storage collaborator fails in db.execute or db.commit: the exception
\* leaves save_signal and is caught by detect_signals_for_stock, which
\* returns (0, 0); nothing is written.
StorageError(t) ==
    /\ stask[t].pc \in {"execute", "commit"}
    /\ faults < MaxStorageFaults
    /\ faults' = faults + 1
    /\ stask' = [stask EXCEPT ![t] = ReturnedTask("failed", 0, 0)]
    /\ UNCHANGED <<now, signals, saveCalls>>
    /\ UNCHANGED scrVars
    /\ UNCHANGED chVars
    /\ UNCHANGED fnVars
    /\ UNCHANGED opsVars

\* No task other than t is inside the save loop.
Alone(t) == \A u \in SaveTasks \ {t} : stask[u].pc \notin {"execute", "commit"}

(***************************************************************************)
(* Part II.  Screening pipeline: pure parts                                *)
(***************************************************************************)

\* semaphore = asyncio.Semaphore(10)
ScreenConcurrency == 10

\* MA_PERIOD_MAP: weekly MA window -> number of daily bars.
MaPeriodMap(ma_period) ==
    CASE ma_period = "20W" -> Some(100)
      [] ma_period = "50W" -> Some(250)
      [] ma_period = "100W" -> Some(500)
      [] ma_period = "200W" -> Some(1000)
      [] OTHER -> None

Abs(x) == IF x < 0 THEN -x ELSE x

\* Python round(num / den, ...) on the exact quotient: to nearest, ties to even.
RoundDiv(num, den) ==
    LET q == num \div den
        r == num - q * den
    IN IF 2 * r < den THEN q
       ELSE IF 2 * r > den THEN q + 1
       ELSE IF q % 2 = 0 THEN q ELSE q + 1

\* A bar series as the provider holds it: n daily bars, the last closing at
\* `last` cents and the earlier ones at `base` cents.  Closes expands it to the
\* list of closes that get_ohlcv_for_indicators returns, oldest first: the
\* provider cuts the history to the last period + 50 bars (history.tail).
Closes(series, ma_period) ==
    LET days_needed == (IF MaPeriodMap(ma_period) = None THEN 1000
                        ELSE MaPeriodMap(ma_period)[1]) + 50
        n == IF series.n < days_needed THEN series.n ELSE days_needed
    IN [i \in 1..n |-> IF i < n THEN series.base ELSE series.last]

RECURSIVE SumRange(_, _, _)
\* Sum of seq[lo..hi], by halves.
SumRange(seq, lo, hi) ==
    IF lo > hi THEN 0
    ELSE IF lo = hi THEN seq[lo]
    ELSE LET mid == (lo + hi) \div 2
         IN SumRange(seq, lo, mid) + SumRange(seq, mid + 1, hi)

\* Sum of the last k elements of a sequence of at least k numbers.
SumLast(seq, k) == SumRange(seq, Len(seq) - k + 1, Len(seq))

\* calculate_ma_result(df, period), the fields get_ma_distance reads:
\* <<current_price, current_value, distance_percent>>, each optional.  The
\* rolling mean of the last `period` closes is sum / period; a value that is
\* zero is falsy in the code's tests and comes out as None.
CalculateMaResult(closes, period) ==
    IF Len(closes) = 0 \/ Len(closes) < period
    THEN <<None, None, None>>
    ELSE LET sum == SumLast(closes, period)
             current_price == closes[Len(closes)]
             current_ma == sum
         IN <<IF current_price # 0 THEN Some(current_price) ELSE None,
              IF current_ma # 0 THEN Some(RoundDiv(sum, period)) ELSE None,
              IF current_ma # 0 /\ current_price # 0
              THEN Some(RoundDiv(10000 * (current_price * period - sum), sum))
              ELSE None>>

\* A mutant of GetMaDistance: the history-length test is missing and the mean
\* is taken over whatever bars there are.
GetMaDistanceAnyLength(closes, ma_period) ==
    IF Len(closes) = 0 THEN <<None, None, None>>
    ELSE CalculateMaResult(closes,
            IF Len(closes) < MaPeriodMap(ma_period)[1] THEN Len(closes)
            ELSE MaPeriodMap(ma_period)[1])

\* IndicatorCalculator.get_ma_distance(ohlcv_list, ma_period)
GetMaDistance(closes, ma_period) ==
    LET period == MaPeriodMap(ma_period) IN
    IF period = None THEN <<None, None, None>>
    ELSE IF Len(closes) = 0 \/ Len(closes) < period[1]
    THEN <<None, None, None>>
    ELSE CalculateMaResult(closes, period[1])

\* A mutant of Position: the "at" band includes its boundary.
PositionInclusive(distance_pct) ==
    IF Abs(distance_pct) <= 50 THEN "at"
    ELSE IF distance_pct > 0 THEN "above"
    ELSE "below"

\* A mutant of Position: the sign is tested before the band.
PositionSignFirst(distance_pct) ==
    IF distance_pct > 0 THEN "above"
    ELSE IF distance_pct < 0 THEN "below"
    ELSE "at"

\* _process_stock: position relative to the MA; 0.5 percent is 50 hundredths.
Position(distance_pct) ==
    IF Abs(distance_pct) < 50 THEN "at"
    ELSE IF distance_pct > 0 THEN "above"
    ELSE "below"

\* _process_stock: the ScreenerResult built from the MA distance and the quote.
ScreenerResult(stock, ma_period, calc, quote) ==
    [symbol |-> stock.symbol,
     name |-> stock.name,
     sector |-> stock.sector,
     price |-> calc[1][1],
     change |-> quote.change,
     change_percent |-> quote.change_percent,
     market_cap |-> quote.market_cap,
     ma_value |-> calc[2][1],
     ma_period |-> ma_period,
     distance |-> calc[1][1] - calc[2][1],
     distance_percent |-> calc[3][1],
     position |-> Position(calc[3][1])]

RECURSIVE ValidResultsUntilNone(_)
\* A mutant of ValidResults: the collection stops at the first task without
\* a row.
ValidResultsUntilNone(results) ==
    IF results = <<>> \/ Head(results) = None THEN <<>>
    ELSE <<Head(results)[1]>> \o ValidResultsUntilNone(Tail(results))

\* screen: results of gather that are ScreenerResult instances, in task order.
\* A task result is None, or Some(row).
ValidResults(results) ==
    LET ok == SelectSeq(results, LAMBDA r : r # None)
    IN [i \in 1..Len(ok) |-> ok[i][1]]

\* A mutant of KeepRow: include_below also governs the "at" rows below the MA.
KeepRowBelowBySign(r, req) ==
    /\ ~(Abs(r.distance_percent) > req.distance_pct)
    /\ ~(r.distance_percent < 0 /\ ~req.include_below)
    /\ ~(r.distance_percent >= 0 /\ ~req.include_above)

\* A mutant of KeepRow: the distance filter reads the signed distance.
KeepRowSigned(r, req) ==
    /\ ~(r.distance_percent > req.distance_pct)
    /\ ~(r.position = "below" /\ ~req.include_below)
    /\ ~(r.position \in {"above", "at"} /\ ~req.include_above)

\* screen: the distance filter, one row.
KeepRow(r, req) ==
    /\ ~(Abs(r.distance_percent) > req.distance_pct)
    /\ ~(r.position = "below" /\ ~req.include_below)
    /\ ~(r.position \in {"above", "at"} /\ ~req.include_above)

\* screen: filtered_results.
FilterResults(valid_results, req) ==
    SelectSeq(valid_results, LAMBDA r : KeepRow(r, req))

\* Python's < on two strings, given as sequences of character codes.
RECURSIVE StrLess(_, _)
StrLess(a, b) ==
    IF Len(b) = 0 THEN FALSE
    ELSE IF Len(a) = 0 THEN TRUE
    ELSE IF a[1] # b[1] THEN a[1] < b[1]
    ELSE StrLess(Tail(a), Tail(b))

\* _get_sort_key(sort_by)(r), and the order of two keys.
SortKey(sort_by, r) ==
    CASE sort_by = "symbol" -> r.symbol
      [] sort_by = "name" -> r.name
      [] sort_by = "price" -> r.price
      [] sort_by = "distance" -> Abs(r.distance_percent)
      [] sort_by = "market_cap" ->
            (IF r.market_cap = None \/ r.market_cap = Some(0) THEN 0
             ELSE r.market_cap[1])
      [] sort_by = "change" -> r.change_percent
      [] OTHER -> Abs(r.distance_percent)

KeyLess(sort_by, a, b) ==
    IF sort_by \in {"symbol", "name"}
    THEN StrLess(SortKey(sort_by, a), SortKey(sort_by, b))
    ELSE SortKey(sort_by, a) < SortKey(sort_by, b)

\* Insert row r into the sorted sequence `done`, after every row that does not
\* come strictly after r: equal keys keep their order of arrival.
RECURSIVE InsertStable(_, _, _, _)
InsertStable(done, r, sort_by, reverse) ==
    IF Len(done) = 0 THEN <<r>>
    ELSE LET last == done[Len(done)]
             after == IF reverse THEN KeyLess(sort_by, last, r)
                      ELSE KeyLess(sort_by, r, last)
         IN IF after
            THEN Append(InsertStable(SubSeq(done, 1, Len(done) - 1), r,
                                     sort_by, reverse), last)
            ELSE Append(done, r)

RECURSIVE SortedUpTo(_, _, _, _)
SortedUpTo(rows, k, sort_by, reverse) ==
    IF k = 0 THEN <<>>
    ELSE InsertStable(SortedUpTo(rows, k - 1, sort_by, reverse), rows[k],
                      sort_by, reverse)

Reverse(seq) == [i \in 1..Len(seq) |-> seq[Len(seq) + 1 - i]]

\* A mutant of Sorted: descending order is the ascending order reversed.
SortedThenReversed(rows, sort_by, reverse) ==
    IF reverse THEN Reverse(SortedUpTo(rows, Len(rows), sort_by, FALSE))
    ELSE SortedUpTo(rows, Len(rows), sort_by, FALSE)

\* sorted(filtered_results, key=sort_key, reverse=reverse): a stable sort in
\* both directions.
Sorted(rows, sort_by, reverse) == SortedUpTo(rows, Len(rows), sort_by, reverse)

Min(a, b) == IF a < b THEN a ELSE b

\* A mutant of Slice: the end of the page is `limit`, not offset + limit.
SliceToLimit(rows, offset, limit) ==
    SubSeq(rows, Min(offset, Len(rows)) + 1, Min(limit, Len(rows)))

\* rows[offset : offset + limit], a Python slice with 0 <= offset, 1 <= limit.
Slice(rows, offset, limit) ==
    SubSeq(rows, Min(offset, Len(rows)) + 1, Min(offset + limit, Len(rows)))

\* CacheKeys.screener(request.model_dump()): the prefix and the hash of the
\* request JSON with its keys sorted; the hash is taken to tell two
\* different JSON texts apart.
ScreenerKey(req) ==
    <<"argus", "screener",
      <<req.distance_pct, req.include_above, req.include_below,
        req.limit, req.ma_filter, req.offset, req.sort_by,
        req.sort_order>>>>

\* CacheKeys.universe()
UniverseKey == <<"argus", "universe">>

(***************************************************************************)
(* Part III.  Screening pipeline: the screen() call                        *)
(***************************************************************************)

\* Bound of the exploration: provider and cache failures injected.
MaxFaults == 1

\* DEFAULT_UNIVERSE, cut to its first three entries (AAPL, MSFT, GOOGL), the
\* symbols and names shortened to two characters: "AA" "Ap", "MS" "Mi",
\* "GO" "Al".  Neither the symbols nor the names are in alphabetical order.
DefaultUniverse ==
    <<[symbol |-> <<65, 65>>, name |-> <<65, 112>>, sector |-> "Technology"],
      [symbol |-> <<77, 83>>, name |-> <<77, 105>>, sector |-> "Technology"],
      [symbol |-> <<71, 79>>, name |-> <<65, 108>>, sector |-> "Technology"]>>

\* A stock_universe row.
UniverseRow(stock, is_active) ==
    [symbol |-> stock.symbol, name |-> stock.name, sector |-> stock.sector,
     is_active |-> is_active]

\* A mutant of CacheGet: an entry is read although the store does not answer.
CacheGetWhileDown(store, up, key) ==
    IF key \in DOMAIN store THEN Some(store[key]) ELSE None

\* cache_service.get(key): the stored value, or None when the key is absent
\* or the store does not answer.
CacheGet(store, up, key) ==
    IF up /\ key \in DOMAIN store THEN Some(store[key]) ELSE None

\* cache_service.set(key, value, ttl): the store afterwards.
CacheSet(store, up, key, value) ==
    IF up
    THEN [k \in DOMAIN store \cup {key} |-> IF k = key THEN value ELSE store[k]]
    ELSE store

\* cache_service.delete(key): the store afterwards.
CacheDelete(store, up, key) ==
    IF up THEN [k \in DOMAIN store \ {key} |-> store[k]] ELSE store

\* UniverseManager.get_universe(db): the cached list when there is a non-empty
\* one, else the active rows of the table, which are then cached.  The result
\* is the list and the cache store afterwards.
GetUniverse(store, up, table) ==
    LET cached == CacheGet(store, up, UniverseKey)
        active == SelectSeq(table, LAMBDA s : s.is_active)
        listed == [i \in 1..Len(active) |->
                      [symbol |-> active[i].symbol, name |-> active[i].name,
                       sector |-> active[i].sector]]
    IN IF cached # None /\ cached[1] # <<>>
       THEN [list |-> cached[1], store |-> store]
       ELSE [list |-> listed, store |-> CacheSet(store, up, UniverseKey, listed)]

\* UniverseManager.initialize_universe(db): every default stock that has no
\* row gets an active one, appended in the order of DEFAULT_UNIVERSE.
RECURSIVE InitializeUniverse(_, _)
InitializeUniverse(table, k) ==
    IF k = 0 THEN table
    ELSE LET before == InitializeUniverse(table, k - 1)
             stock == DefaultUniverse[k]
         IN IF \E i \in 1..Len(before) : before[i].symbol = stock.symbol
            THEN before
            ELSE Append(before, UniverseRow(stock, TRUE))

\* A mutant of CanAcquire: the semaphore never blocks.
CanAcquireAlways(value) == TRUE

\* asyncio.Semaphore: acquire goes through without waiting when the value is
\* positive.
CanAcquire(value) == value > 0

\* A process_with_limit task that was created and ran up to its first await:
\* it holds a slot and awaits the bars, or waits for a slot.
NewTask(stock, holds) ==
    [stock |-> stock, pc |-> IF holds THEN "bars" ELSE "wait",
     calc |-> None, result |-> None, outcome |-> "running"]

\* tasks = [process_with_limit(stock) for stock in universe]; gather runs each
\* task up to its first await, in list order: task i acquires the semaphore
\* when i - 1 earlier tasks left it a positive value.
StartTasks(list) ==
    [i \in 1..Len(list) |->
        NewTask(list[i], CanAcquire(ScreenConcurrency - (i - 1)))]

\* Number of tasks of the call that hold a slot of the semaphore.
Holding(ts) == Cardinality({i \in 1..Len(ts) : ts[i].pc \in {"bars", "quote"}})

\* A task returned: its locals are gone; the result stays, and whether the
\* task built a row ("row"), found the stock's data lacking ("absent") or met
\* a timeout or an exception ("failed").
Finished(task, result, outcome) ==
    [task EXCEPT !.pc = "done", !.calc = None, !.result = result,
                 !.outcome = outcome]

\* The outcomes of one provider call, or of the computation after it: it
\* answers, it exceeds market_data_timeout, the provider raises, or the
\* computation on the answer raises.
ProviderFaults == {"timeout", "error", "raise"}

\* market_data_service.get_ohlcv_for_indicators(symbol, ma_period): the closes
\* of the bars returned; [] on a timeout, on an exception and on no history.
ProviderBars(data, symbol, ma_period, fault) ==
    IF fault \in {"timeout", "error"} THEN <<>>
    ELSE Closes(data[symbol].series, ma_period)

\* market_data_service.get_quote(symbol): the quote, or None on a timeout, on
\* an exception and on no quote data.
ProviderQuote(data, symbol, fault) ==
    IF fault \in {"timeout", "error"} THEN None
    ELSE data[symbol].quote

\* A mutant of AfterBars: after a bars fetch that timed out or failed the
\* bars are asked for again.
AfterBarsRetry(task, ma_period, ohlcv, fault) ==
    LET calc == GetMaDistance(ohlcv, ma_period)
    IN IF ohlcv = <<>> /\ fault # "ok"
       THEN task
       ELSE IF ohlcv = <<>>
       THEN Finished(task, None, "absent")
       ELSE IF fault = "raise"
       THEN Finished(task, None, "failed")
       ELSE IF calc[1] = None \/ calc[2] = None \/ calc[3] = None
       THEN Finished(task, None, "absent")
       ELSE [task EXCEPT !.pc = "quote", !.calc = Some(calc)]

\* A mutant of AfterBars: the quote is fetched whether or not the MA
\* distance is there, and the distance is looked at afterwards.
AfterBarsQuoteFirst(task, ma_period, ohlcv, fault) ==
    LET calc == GetMaDistance(ohlcv, ma_period)
    IN IF ohlcv = <<>>
       THEN Finished(task, None, IF fault = "ok" THEN "absent" ELSE "failed")
       ELSE IF fault = "raise"
       THEN Finished(task, None, "failed")
       ELSE [task EXCEPT !.pc = "quote", !.calc = Some(calc)]

\* _process_stock from the return of the bars fetch up to the quote fetch.
AfterBars(task, ma_period, ohlcv, fault) ==
    LET calc == GetMaDistance(ohlcv, ma_period)
    IN IF ohlcv = <<>>
       THEN Finished(task, None, IF fault = "ok" THEN "absent" ELSE "failed")
       ELSE IF fault = "raise"
       THEN Finished(task, None, "failed")
       ELSE IF calc[1] = None \/ calc[2] = None \/ calc[3] = None
       THEN Finished(task, None, "absent")
       ELSE [task EXCEPT !.pc = "quote", !.calc = Some(calc)]

\* A mutant of AfterQuote: after a quote fetch that timed out or failed the
\* evaluation of the symbol starts over with the bars fetch.
AfterQuoteRetry(task, ma_period, quote, fault) ==
    IF quote = None /\ fault # "ok"
    THEN [task EXCEPT !.pc = "bars", !.calc = None]
    ELSE IF quote = None
    THEN Finished(task, None, "absent")
    ELSE IF fault = "raise"
    THEN Finished(task, None, "failed")
    ELSE Finished(task,
            Some(ScreenerResult(task.stock, ma_period, task.calc[1], quote[1])),
            "row")

\* _process_stock from the return of the quote fetch to its return.
AfterQuote(task, ma_period, quote, fault) ==
    IF quote = None
    THEN Finished(task, None, IF fault = "ok" THEN "absent" ELSE "failed")
    ELSE IF fault = "raise"
    THEN Finished(task, None, "failed")
    ELSE Finished(task,
            Some(ScreenerResult(task.stock, ma_period, task.calc[1], quote[1])),
            "row")

\* datetime.isoformat() of the clock.
IsoFormat(clock) == <<"iso", clock>>

\* A mutant of CacheData: the cache keeps every sorted row, not the page.
CacheDataAllRows(sorted_results, paginated, total, clock) ==
    [results |-> sorted_results, total |-> total, timestamp |-> IsoFormat(clock)]

\* A mutant of CacheData: the cached total is the size of the page.
CacheDataPageTotal(sorted_results, paginated, total, clock) ==
    [results |-> paginated, total |-> Len(paginated),
     timestamp |-> IsoFormat(clock)]

\* screen: cache_data; a row's model_dump() is its record of fields.
CacheData(sorted_results, paginated, total, clock) ==
    [results |-> paginated, total |-> total, timestamp |-> IsoFormat(clock)]

\* screen, from the return of gather to the cache set: the rows are
\* collected, filtered, sorted and paginated.
Computed(ts, req, clock) ==
    LET results == [i \in 1..Len(ts) |-> ts[i].result]
        valid_results == ValidResults(results)
        filtered_results == FilterResults(valid_results, req)
        sorted_results == Sorted(filtered_results, req.sort_by,
                                 req.sort_order = "desc")
        total == Len(sorted_results)
        paginated == Slice(sorted_results, req.offset, req.limit)
    IN [cache_data |-> CacheData(sorted_results, paginated, total, clock),
        response |-> [results |-> paginated, total |-> total, filters |-> req,
                      cached |-> FALSE, cache_timestamp |-> None]]

\* screen: the response on a cache hit.
CachedResponse(cached, req) ==
    [results |-> cached.results, total |-> cached.total, filters |-> req,
     cached |-> TRUE, cache_timestamp |-> Some(cached.timestamp)]

\* The record of a returned call.
Returned(req, resp, stored, at) ==
    [request |-> req, response |-> resp, stored |-> stored, at |-> at]

(***************************************************************************)
(* Part IV.  The data the screening calls are explored on                  *)
(***************************************************************************)

\* Bounds of the exploration.
MaxRuns == 2
ConcUniverseSize == 11

\* The stock_universe table holding the stocks of `list`, those at the
\* positions in `inactive` soft-deleted (remove_stock).
TableOf(list, inactive) ==
    [i \in 1..Len(list) |-> UniverseRow(list[i], i \notin inactive)]

\* Bar series: n daily bars, the last at `last` cents, the others at `base`.
Series(n, base, last) == [n |-> n, base |-> base, last |-> last]

\* A Quote, the fields _process_stock reads; amounts in cents, change_percent
\* in hundredths of a percent.
QuoteOf(change, change_percent, market_cap) ==
    [change |-> change, change_percent |-> change_percent,
     market_cap |-> market_cap]

\* What the provider holds for one symbol.
Held(series, quote) == [series |-> series, quote |-> quote]

\* Per symbol, the data the provider may hold.  Against the 20W average of
\* 100 bars the distances are -0.30, 0.50, -0.50, 0.30, -2.97 and 5.94 percent;
\* 60 bars are too few for any average, 150 too few for 50W, a series that
\* ends at price 0 has no current price, and a symbol may have no bars or no
\* quote at all.
HeldFor(symbol) ==
    CASE symbol = <<65, 65>> ->
            {Held(Series(150, 10000, 9970), Some(QuoteOf(-30, 120, None))),
             Held(Series(150, 10000, 10051), Some(QuoteOf(51, 120, Some(0)))),
             Held(Series(60, 10000, 9970), Some(QuoteOf(-30, -30, Some(700)))),
             Held(Series(150, 10000, 10600), None)}
      [] symbol = <<77, 83>> ->
            {Held(Series(150, 10000, 9949), Some(QuoteOf(-51, 120, Some(0)))),
             Held(Series(150, 10000, 10030), Some(QuoteOf(30, -40, Some(500)))),
             Held(Series(150, 10000, 0), Some(QuoteOf(0, 0, Some(500)))),
             Held(Series(150, 10000, 9700), Some(QuoteOf(-300, -300, None)))}
      [] symbol = <<71, 79>> ->
            {Held(Series(150, 10000, 9970), Some(QuoteOf(-30, 120, None))),
             Held(Series(300, 10000, 10600), Some(QuoteOf(600, 300, Some(500)))),
             Held(Series(0, 0, 0), Some(QuoteOf(0, 0, None)))}
      [] OTHER ->
            {Held(Series(150, 10000, 9970), Some(QuoteOf(-30, 120, None)))}

Symbols(list) == {list[i].symbol : i \in 1..Len(list)}

\* The provider's possible holdings for the stocks of `list`.
Markets(list) ==
    {m \in [Symbols(list) -> UNION {HeldFor(s) : s \in Symbols(list)}] :
        \A s \in Symbols(list) : m[s] \in HeldFor(s)}

\* ScreenerRequest(...); distance_pct in hundredths of a percent.
Request(ma_filter, distance_pct, include_below, include_above, sort_by, sort_order, limit, offset) ==
    [ma_filter |-> ma_filter, distance_pct |-> distance_pct,
     include_below |-> include_below, include_above |-> include_above,
     sort_by |-> sort_by, sort_order |-> sort_order, limit |-> limit,
     offset |-> offset]

\* ScreenerRequest(): the defaults of the model's fields.
DefaultRequest == Request("20W", 500, TRUE, TRUE, "distance", "asc", 100, 0)

SortFields == {"symbol", "name", "price", "distance", "market_cap", "change"}

\* The requests explored: every sort field in both orders over all rows, both
\* include flags at a narrow and at the default distance, pages inside, across
\* and past the rows, and the 50W average.
Requests ==
    {Request("20W", 10000, TRUE, TRUE, f, o, 100, 0) :
        f \in SortFields, o \in {"asc", "desc"}}
    \cup {Request("20W", d, b, a, "distance", "asc", 100, 0) :
        d \in {50, 500}, b \in BOOLEAN, a \in BOOLEAN}
    \cup {Request("20W", 10000, TRUE, TRUE, "symbol", "desc", p[1], p[2]) :
        p \in {<<1, 1>>, <<2, 0>>, <<2, 2>>, <<2, 3>>}}
    \cup {Request("50W", 10000, TRUE, TRUE, "distance", "asc", 100, 0)}

\* No screen() call is running and none has run.
ScrIdle ==
    /\ cache = <<>>
    /\ cacheUp = TRUE
    /\ spc = "idle"
    /\ request = DefaultRequest
    /\ tasks = <<>>
    /\ sem = 0
    /\ pending = None
    /\ response = None
    /\ history = <<>>
    /\ runs = 0
    /\ pfaults = 0

\* A mutant of ScreenCacheGet: a hit writes the page back under its key with
\* the time of the hit.
ScreenCacheGetRefreshing ==
    /\ spc = "cacheget"
    /\ LET cached == CacheGet(cache, cacheUp, ScreenerKey(request)) IN
        IF cached # None
        THEN /\ spc' = "returned"
             /\ response' = Some(CachedResponse(cached[1], request))
             /\ history' = Append(history,
                    Returned(request, CachedResponse(cached[1], request),
                             FALSE, now))
             /\ cache' = CacheSet(cache, cacheUp, ScreenerKey(request),
                    [cached[1] EXCEPT !.timestamp = IsoFormat(now)])
        ELSE /\ spc' = "universe"
             /\ UNCHANGED <<response, history, cache>>
    /\ UNCHANGED <<universe, market, cacheUp, request, tasks, sem,
                   pending, runs, pfaults>>
    /\ UNCHANGED sigVars
    /\ UNCHANGED chVars
    /\ UNCHANGED fnVars
    /\ UNCHANGED opsVars

\* A mutant of ScreenCacheGet: a hit is returned after the universe was
\* read and the tasks were started.
ScreenCacheGetAfterUniverse ==
    /\ spc = "cacheget"
    /\ LET cached == CacheGet(cache, cacheUp, ScreenerKey(request)) IN
        IF cached # None
        THEN /\ spc' = "returned"
             /\ response' = Some(CachedResponse(cached[1], request))
             /\ history' = Append(history,
                    Returned(request, CachedResponse(cached[1], request),
                             FALSE, now))
             /\ tasks' = StartTasks(GetUniverse(cache, cacheUp, universe).list)
        ELSE /\ spc' = "universe"
             /\ UNCHANGED <<response, history, tasks>>
    /\ UNCHANGED <<universe, market, cache, cacheUp, request, sem,
                   pending, runs, pfaults>>
    /\ UNCHANGED sigVars
    /\ UNCHANGED chVars
    /\ UNCHANGED fnVars
    /\ UNCHANGED opsVars

\* screen: cache_service.get(cache_key) returns; a hit returns the response
\* made from the cached page, a miss goes on to the universe.
ScreenCacheGet ==
    /\ spc = "cacheget"
    /\ LET cached == CacheGet(cache, cacheUp, ScreenerKey(request)) IN
        IF cached # None
        THEN /\ spc' = "returned"
             /\ response' = Some(CachedResponse(cached[1], request))
             /\ history' = Append(history,
                    Returned(request, CachedResponse(cached[1], request),
                             FALSE, now))
        ELSE /\ spc' = "universe"
             /\ UNCHANGED <<response, history>>
    /\ UNCHANGED <<universe, market, cache, cacheUp, request, tasks, sem,
                   pending, runs, pfaults>>
    /\ UNCHANGED sigVars
    /\ UNCHANGED chVars
    /\ UNCHANGED fnVars
    /\ UNCHANGED opsVars

\* screen: get_universe returns (after initialize_universe and a second
\* get_universe when the first list was empty); the tasks are created and
\* gather runs each up to its first await.
ScreenGather ==
    /\ spc = "universe"
    /\ LET first == GetUniverse(cache, cacheUp, universe)
           table == IF first.list = <<>>
                    THEN InitializeUniverse(universe, Len(DefaultUniverse))
                    ELSE universe
           second == IF first.list = <<>>
                     THEN GetUniverse(
                            CacheDelete(first.store, cacheUp, UniverseKey),
                            cacheUp, table)
                     ELSE first
       IN /\ universe' = table
          /\ cache' = second.store
          /\ tasks' = StartTasks(second.list)
          /\ sem' = ScreenConcurrency - Holding(StartTasks(second.list))
    /\ spc' = "gather"
    /\ UNCHANGED <<market, cacheUp, request, pending, response, history, runs,
                   pfaults>>
    /\ UNCHANGED sigVars
    /\ UNCHANGED chVars
    /\ UNCHANGED fnVars
    /\ UNCHANGED opsVars

\* A mutant of TaskBars: a task that returns after the bars fetch keeps its
\* slot of the semaphore.
TaskBarsKeepsSlot(i) ==
    /\ spc = "gather"
    /\ i \in 1..Len(tasks)
    /\ tasks[i].pc = "bars"
    /\ \E fault \in ProviderFaults \cup {"ok"} :
        /\ fault # "ok" => pfaults < MaxFaults
        /\ pfaults' = IF fault = "ok" THEN pfaults ELSE pfaults + 1
        /\ tasks' = [tasks EXCEPT ![i] =
                        AfterBars(tasks[i], request.ma_filter,
                            ProviderBars(market, tasks[i].stock.symbol,
                                         request.ma_filter, fault), fault)]
    /\ sem' = sem
    /\ UNCHANGED <<universe, market, cache, cacheUp, spc, request, pending,
                   response, history, runs>>
    /\ UNCHANGED sigVars
    /\ UNCHANGED chVars
    /\ UNCHANGED fnVars
    /\ UNCHANGED opsVars

\* Task i: the bars fetch returns and _process_stock runs on to the quote
\* fetch, or returns None and leaves the semaphore.
TaskBars(i) ==
    /\ spc = "gather"
    /\ i \in 1..Len(tasks)
    /\ tasks[i].pc = "bars"
    /\ \E fault \in ProviderFaults \cup {"ok"} :
        /\ fault # "ok" => pfaults < MaxFaults
        /\ pfaults' = IF fault = "ok" THEN pfaults ELSE pfaults + 1
        /\ LET after == AfterBars(tasks[i], request.ma_filter,
                            ProviderBars(market, tasks[i].stock.symbol,
                                         request.ma_filter, fault), fault)
           IN /\ tasks' = [tasks EXCEPT ![i] = after]
              /\ sem' = IF after.pc = "done" THEN sem + 1 ELSE sem
    /\ UNCHANGED <<universe, market, cache, cacheUp, spc, request, pending,
                   response, history, runs>>
    /\ UNCHANGED sigVars
    /\ UNCHANGED chVars
    /\ UNCHANGED fnVars
    /\ UNCHANGED opsVars

\* Task i: the quote fetch returns, _process_stock returns the row or None and
\* the task leaves the semaphore.
TaskQuote(i) ==
    /\ spc = "gather"
    /\ i \in 1..Len(tasks)
    /\ tasks[i].pc = "quote"
    /\ \E fault \in ProviderFaults \cup {"ok"} :
        /\ fault # "ok" => pfaults < MaxFaults
        /\ pfaults' = IF fault = "ok" THEN pfaults ELSE pfaults + 1
        /\ tasks' = [tasks EXCEPT ![i] =
                        AfterQuote(tasks[i], request.ma_filter,
                            ProviderQuote(market, tasks[i].stock.symbol, fault),
                            fault)]
    /\ sem' = sem + 1
    /\ UNCHANGED <<universe, market, cache, cacheUp, spc, request, pending,
                   response, history, runs>>
    /\ UNCHANGED sigVars
    /\ UNCHANGED chVars
    /\ UNCHANGED fnVars
    /\ UNCHANGED opsVars

\* Task i, the longest waiting one, is woken and acquires the semaphore.
TaskAcquire(i) ==
    /\ spc = "gather"
    /\ i \in 1..Len(tasks)
    /\ tasks[i].pc = "wait"
    /\ \A j \in 1..(i - 1) : tasks[j].pc # "wait"
    /\ CanAcquire(sem)
    /\ sem' = sem - 1
    /\ tasks' = [tasks EXCEPT ![i].pc = "bars"]
    /\ UNCHANGED <<universe, market, cache, cacheUp, spc, request, pending,
                   response, history, runs, pfaults>>
    /\ UNCHANGED sigVars
    /\ UNCHANGED chVars
    /\ UNCHANGED fnVars
    /\ UNCHANGED opsVars

\* screen: gather returns when every task has; the response and the cache
\* data are computed and cache_service.set is awaited.
ScreenCompute ==
    /\ spc = "gather"
    /\ \A i \in 1..Len(tasks) : tasks[i].pc = "done"
    /\ pending' = Some(Computed(tasks, request, now))
    /\ spc' = "cacheset"
    /\ UNCHANGED <<universe, market, cache, cacheUp, request, tasks, sem,
                   response, history, runs, pfaults>>
    /\ UNCHANGED sigVars
    /\ UNCHANGED chVars
    /\ UNCHANGED fnVars
    /\ UNCHANGED opsVars

\* screen: cache_service.set returns and the response is returned.
ScreenReturn ==
    /\ spc = "cacheset"
    /\ cache' = CacheSet(cache, cacheUp, ScreenerKey(request),
                         pending[1].cache_data)
    /\ response' = Some(pending[1].response)
    /\ history' = Append(history,
                    Returned(request, pending[1].response, cacheUp, now))
    /\ pending' = None
    /\ spc' = "returned"
    /\ UNCHANGED <<universe, market, cacheUp, request, tasks, sem, runs,
                   pfaults>>
    /\ UNCHANGED sigVars
    /\ UNCHANGED chVars
    /\ UNCHANGED fnVars
    /\ UNCHANGED opsVars

\* The cache store stops answering: every get yields None and every set and
\* delete fails from then on.
CacheDown ==
    /\ cacheUp
    /\ pfaults < MaxFaults
    /\ pfaults' = pfaults + 1
    /\ cacheUp' = FALSE
    /\ UNCHANGED <<universe, market, cache, spc, request, tasks, sem, pending,
                   response, history, runs>>
    /\ UNCHANGED sigVars
    /\ UNCHANGED chVars
    /\ UNCHANGED fnVars
    /\ UNCHANGED opsVars

(***************************************************************************)
(* Part V.  Chart path: indicators, period slicing, weekly resampling      *)
(*                                                                         *)
(* A bar is a record [timestamp, open, high, low, close, volume].  A       *)
(* timestamp is a day number, day 0 being Monday 2024-01-01.  An entry of  *)
(* an indicator value series is <<timestamp, value>> with an optional      *)
(* value.  RSI values are in hundredths, MACD values in ten-thousandths of *)
(* a dollar (the code rounds them to 2 and to 4 decimals).                 *)
(***************************************************************************)

\* PERIOD_DAYS.get(period, 252)
PeriodDays(period) ==
    CASE period = "3M" -> 63
      [] period = "6M" -> 126
      [] period = "1Y" -> 252
      [] period = "2Y" -> 504
      [] period = "5Y" -> 1260
      [] OTHER -> 252

\* timestamp.isocalendar(): <<ISO year, ISO week>> of a day number.  ISO year
\* 2024 has 52 weeks and starts on day 0; ISO year 2025 starts on day 364
\* (Monday 2024-12-30) and has 52 weeks.
IsoCalendar(d) ==
    IF d < 364 THEN <<2024, d \div 7 + 1>>
    ELSE <<2025, (d - 364) \div 7 + 1>>

\* Python's order on (year, week) tuples.
WeekKeyLess(a, b) == a[1] < b[1] \/ (a[1] = b[1] /\ a[2] < b[2])

\* Python seq[-length:] for length > 0: the last `length` elements, or all
\* of them when there are fewer.
LastN(seq, length) ==
    IF Len(seq) <= length THEN seq
    ELSE SubSeq(seq, Len(seq) - length + 1, Len(seq))

\* True when the timestamps of a bar list strictly increase.
Ascending(ohlcv) ==
    \A i \in 1..(Len(ohlcv) - 1) : ohlcv[i].timestamp < ohlcv[i + 1].timestamp

\* IndicatorCalculator.ohlcv_to_dataframe: the rows of the bar list ordered
\* by timestamp (df.sort_index); rows with equal timestamps keep their order.
OhlcvToDataframe(ohlcv_list) ==
    IF Ascending(ohlcv_list) THEN ohlcv_list
    ELSE LET n == Len(ohlcv_list)
             Before(j, k) ==
                 \/ ohlcv_list[j].timestamp < ohlcv_list[k].timestamp
                 \/ /\ ohlcv_list[j].timestamp = ohlcv_list[k].timestamp
                    /\ j < k
             Rank(k) == Cardinality({j \in 1..n : Before(j, k)}) + 1
         IN [i \in 1..n |-> ohlcv_list[CHOOSE k \in 1..n : Rank(k) = i]]

\* df["close"]
CloseColumn(df) == [i \in 1..Len(df) |-> df[i].close]

RECURSIVE PrefixSums(_, _, _, _)
\* The running sums seq[lo] + acc, seq[lo] + seq[lo+1] + acc, ... up to hi,
\* built by halves.
PrefixSums(seq, lo, hi, acc) ==
    IF lo > hi THEN <<>>
    ELSE IF lo = hi THEN <<acc + seq[lo]>>
    ELSE LET mid == (lo + hi) \div 2
             left == PrefixSums(seq, lo, mid, acc)
         IN left \o PrefixSums(seq, mid + 1, hi, left[Len(left)])

\* A mutant of MovingAverage: the window starts one bar early, so the mean
\* is over period + 1 closes divided by period.
MovingAverageWide(prices, period) ==
    LET n == Len(prices)
        sums == PrefixSums(prices, 1, n, 0)
    IN [i \in 1..n |->
            IF i < period THEN None
            ELSE Some(RoundDiv(sums[i] - (IF i > period + 1
                                          THEN sums[i - period - 1] ELSE 0),
                               period))]

\* A mutant of MovingAverage: min_periods is 1, so the first positions carry
\* the mean of the closes so far.
MovingAverageEager(prices, period) ==
    LET n == Len(prices)
        sums == PrefixSums(prices, 1, n, 0)
    IN [i \in 1..n |->
            IF i < period THEN Some(RoundDiv(sums[i], i))
            ELSE Some(RoundDiv(sums[i] - (IF i > period THEN sums[i - period]
                                          ELSE 0), period))]

\* IndicatorCalculator.moving_average(prices, period, SMA) followed by the
\* rounding of calculate_ma_result: prices.rolling(window=period,
\* min_periods=period).mean(), one optional value per position, absent
\* before position `period`, rounded to cents.
MovingAverage(prices, period) ==
    LET n == Len(prices)
        sums == PrefixSums(prices, 1, n, 0)
    IN [i \in 1..n |->
            IF i < period THEN None
            ELSE Some(RoundDiv(sums[i] - (IF i > period THEN sums[i - period]
                                          ELSE 0), period))]

\* The value series of a result: one (index, value) entry per row of df.
SeriesToTuples(df, vals) == [i \in 1..Len(df) |-> <<df[i].timestamp, vals[i]>>]

\* A mutant of MaPayload: a history shorter than the period is not tested
\* for, and the rolling mean is returned as it is.
MaPayloadNoLengthTest(df, period) ==
    [period |-> period,
     ma_type |-> "SMA",
     values |-> SeriesToTuples(df, MovingAverage(CloseColumn(df), period)),
     current_value |-> None,
     current_price |-> IF Len(df) = 0 THEN None ELSE Some(df[Len(df)].close),
     distance_percent |-> None]

\* IndicatorCalculator.calculate_ma_result(df, period), as the record that
\* MovingAverageResult.model_dump() gives.
MaPayload(df, period) ==
    IF Len(df) = 0 \/ Len(df) < period
    THEN [period |-> period,
          ma_type |-> "SMA",
          values |-> <<>>,
          current_value |-> None,
          current_price |-> None,
          distance_percent |-> None]
    ELSE LET current == CalculateMaResult(CloseColumn(df), period)
         IN [period |-> period,
             ma_type |-> "SMA",
             values |-> SeriesToTuples(df, MovingAverage(CloseColumn(df), period)),
             current_value |-> current[2],
             current_price |-> current[1],
             distance_percent |-> current[3]]

\* The defaults of calculate_rsi_result and calculate_macd_result.
RsiPeriod == 14
MacdFast == 12
MacdSlow == 26
MacdSignal == 9

\* gain and loss of IndicatorCalculator.rsi: the rise and the fall of each
\* close over the one before it; position 1 has no predecessor and both are 0.
Gains(prices) ==
    [i \in 1..Len(prices) |->
        IF i > 1 /\ prices[i] > prices[i - 1] THEN prices[i] - prices[i - 1]
        ELSE 0]

Losses(prices) ==
    [i \in 1..Len(prices) |->
        IF i > 1 /\ prices[i] < prices[i - 1] THEN prices[i - 1] - prices[i]
        ELSE 0]

\* IndicatorCalculator.rsi(prices, period): per position the optional pair
\* <<sum of gains, sum of losses>> over the last `period` positions; the RSI
\* is 100 - 100 / (1 + avg_gain / avg_loss), the same for sums as for means.
Rsi(prices, period) ==
    LET n == Len(prices)
        g == PrefixSums(Gains(prices), 1, n, 0)
        l == PrefixSums(Losses(prices), 1, n, 0)
    IN [i \in 1..n |->
            IF i < period THEN None
            ELSE Some(<<g[i] - (IF i > period THEN g[i - period] ELSE 0),
                        l[i] - (IF i > period THEN l[i - period] ELSE 0)>>)]

\* round(rsi, 2) in hundredths: 50 for a flat window, 100 when there is no
\* loss, 100 * gain / (gain + loss) otherwise.
RsiRounded(pair) ==
    IF pair[1] = 0 /\ pair[2] = 0 THEN 5000
    ELSE IF pair[2] = 0 THEN 10000
    ELSE RoundDiv(10000 * pair[1], pair[1] + pair[2])

\* rsi > 70 and rsi < 30 on the unrounded value.
RsiAbove70(pair) ==
    IF pair[1] = 0 /\ pair[2] = 0 THEN FALSE
    ELSE 100 * pair[1] > 70 * (pair[1] + pair[2])

RsiBelow30(pair) ==
    IF pair[1] = 0 /\ pair[2] = 0 THEN FALSE
    ELSE 100 * pair[1] < 30 * (pair[1] + pair[2])

\* A mutant of RsiPayload: the history needs period bars, not period + 1.
RsiPayloadPeriodBars(df, period) ==
    IF Len(df) = 0 \/ Len(df) < period
    THEN [period |-> period, values |-> <<>>, current_value |-> None,
          is_overbought |-> FALSE, is_oversold |-> FALSE]
    ELSE LET rsi_series == Rsi(CloseColumn(df), period)
             current_rsi == rsi_series[Len(df)]
         IN [period |-> period,
             values |-> SeriesToTuples(df,
                 [i \in 1..Len(df) |->
                     IF rsi_series[i] = None THEN None
                     ELSE Some(RsiRounded(rsi_series[i][1]))]),
             current_value |-> IF current_rsi = None THEN None
                               ELSE Some(RsiRounded(current_rsi[1])),
             is_overbought |-> current_rsi # None /\ RsiAbove70(current_rsi[1]),
             is_oversold |-> current_rsi # None /\ RsiBelow30(current_rsi[1])]

\* IndicatorCalculator.calculate_rsi_result(df, period), as the record that
\* RSIResult.model_dump() gives.
RsiPayload(df, period) ==
    IF Len(df) = 0 \/ Len(df) < period + 1
    THEN [period |-> period, values |-> <<>>, current_value |-> None,
          is_overbought |-> FALSE, is_oversold |-> FALSE]
    ELSE LET rsi_series == Rsi(CloseColumn(df), period)
             current_rsi == rsi_series[Len(df)]
         IN [period |-> period,
             values |-> SeriesToTuples(df,
                 [i \in 1..Len(df) |->
                     IF rsi_series[i] = None THEN None
                     ELSE Some(RsiRounded(rsi_series[i][1]))]),
             current_value |-> IF current_rsi = None THEN None
                               ELSE Some(RsiRounded(current_rsi[1])),
             is_overbought |-> current_rsi # None /\ RsiAbove70(current_rsi[1]),
             is_oversold |-> current_rsi # None /\ RsiBelow30(current_rsi[1])]

RECURSIVE EwmMean(_, _, _, _, _)
\* prices.ewm(span=span, adjust=False).mean() over positions lo..hi, given
\* the optional value before lo: y1 = x1 and y = ((span - 1) * y_prev +
\* 2 * x) / (span + 1) after it, kept at the resolution of the input; built
\* by halves.
EwmMean(prices, lo, hi, prev, span) ==
    IF lo > hi THEN <<>>
    ELSE IF lo = hi
    THEN <<IF prev = None THEN prices[lo]
           ELSE RoundDiv((span - 1) * prev[1] + 2 * prices[lo], span + 1)>>
    ELSE LET mid == (lo + hi) \div 2
             left == EwmMean(prices, lo, mid, prev, span)
         IN left \o EwmMean(prices, mid + 1, hi, Some(left[Len(left)]), span)

\* A mutant of Macd: the histogram is the signal line minus the MACD line.
MacdHistogramReversed(prices, fast_period, slow_period, signal_period) ==
    LET n == Len(prices)
        fine == [i \in 1..n |-> 100 * prices[i]]
        fast_ema == EwmMean(fine, 1, n, None, fast_period)
        slow_ema == EwmMean(fine, 1, n, None, slow_period)
        macd_line == [i \in 1..n |-> fast_ema[i] - slow_ema[i]]
        signal_line == EwmMean(macd_line, 1, n, None, signal_period)
    IN [macd_line |-> macd_line,
        signal_line |-> signal_line,
        histogram |-> [i \in 1..n |-> signal_line[i] - macd_line[i]]]

\* IndicatorCalculator.macd(prices, fast, slow, signal): the MACD line, the
\* signal line and the histogram, in ten-thousandths of a dollar.
Macd(prices, fast_period, slow_period, signal_period) ==
    LET n == Len(prices)
        fine == [i \in 1..n |-> 100 * prices[i]]
        fast_ema == EwmMean(fine, 1, n, None, fast_period)
        slow_ema == EwmMean(fine, 1, n, None, slow_period)
        macd_line == [i \in 1..n |-> fast_ema[i] - slow_ema[i]]
        signal_line == EwmMean(macd_line, 1, n, None, signal_period)
    IN [macd_line |-> macd_line,
        signal_line |-> signal_line,
        histogram |-> [i \in 1..n |-> macd_line[i] - signal_line[i]]]

\* A mutant of MacdPayload: the history needs slow_period bars only.
MacdPayloadSlowBars(df, fast_period, slow_period, signal_period) ==
    IF Len(df) = 0 \/ Len(df) < slow_period
    THEN [fast_period |-> fast_period, slow_period |-> slow_period,
          signal_period |-> signal_period,
          macd_line |-> <<>>, signal_line |-> <<>>, histogram |-> <<>>,
          current_macd |-> None, current_signal |-> None,
          current_histogram |-> None]
    ELSE LET m == Macd(CloseColumn(df), fast_period, slow_period, signal_period)
             n == Len(df)
             Tuples(s) == SeriesToTuples(df, [i \in 1..n |-> Some(s[i])])
         IN [fast_period |-> fast_period, slow_period |-> slow_period,
             signal_period |-> signal_period,
             macd_line |-> Tuples(m.macd_line),
             signal_line |-> Tuples(m.signal_line),
             histogram |-> Tuples(m.histogram),
             current_macd |-> Some(m.macd_line[n]),
             current_signal |-> Some(m.signal_line[n]),
             current_histogram |-> Some(m.histogram[n])]

\* IndicatorCalculator.calculate_macd_result(df, fast, slow, signal), as the
\* record that MACDResult.model_dump() gives.
MacdPayload(df, fast_period, slow_period, signal_period) ==
    IF Len(df) = 0 \/ Len(df) < slow_period + signal_period
    THEN [fast_period |-> fast_period, slow_period |-> slow_period,
          signal_period |-> signal_period,
          macd_line |-> <<>>, signal_line |-> <<>>, histogram |-> <<>>,
          current_macd |-> None, current_signal |-> None,
          current_histogram |-> None]
    ELSE LET m == Macd(CloseColumn(df), fast_period, slow_period, signal_period)
             n == Len(df)
             Tuples(s) == SeriesToTuples(df, [i \in 1..n |-> Some(s[i])])
         IN [fast_period |-> fast_period, slow_period |-> slow_period,
             signal_period |-> signal_period,
             macd_line |-> Tuples(m.macd_line),
             signal_line |-> Tuples(m.signal_line),
             histogram |-> Tuples(m.histogram),
             current_macd |-> Some(m.macd_line[n]),
             current_signal |-> Some(m.signal_line[n]),
             current_histogram |-> Some(m.histogram[n])]

\* The names under which get_stock_chart puts the results of
\* calculate_all_indicators into the chart's indicators: every requested
\* result is an object, hence truthy, also when its series are empty.
IndicatorNames(include_ma, include_rsi, include_macd) ==
    (IF include_ma THEN {"ma_20w", "ma_50w", "ma_100w", "ma_200w"} ELSE {})
    \cup (IF include_rsi THEN {"rsi"} ELSE {})
    \cup (IF include_macd THEN {"macd"} ELSE {})

\* A mutant of CalculateAllIndicators: the RSI and MACD results are computed
\* on the bars the longest requested moving average leaves after its
\* warm-up, so that include_ma changes them.
CalculateAllIndicatorsSharedWarmup(ohlcv_list, include_ma, include_rsi, include_macd) ==
    LET df == OhlcvToDataframe(ohlcv_list)
        rest == IF include_ma /\ Len(df) >= MaPeriodMap("20W")[1]
                THEN LastN(df, Len(df) - MaPeriodMap("20W")[1] + 1)
                ELSE df
    IN [k \in IndicatorNames(include_ma, include_rsi, include_macd) |->
            CASE k = "ma_20w" -> MaPayload(df, MaPeriodMap("20W")[1])
              [] k = "ma_50w" -> MaPayload(df, MaPeriodMap("50W")[1])
              [] k = "ma_100w" -> MaPayload(df, MaPeriodMap("100W")[1])
              [] k = "ma_200w" -> MaPayload(df, MaPeriodMap("200W")[1])
              [] k = "rsi" -> RsiPayload(rest, RsiPeriod)
              [] k = "macd" -> MacdPayload(rest, MacdFast, MacdSlow, MacdSignal)]

\* A mutant of CalculateAllIndicators: the RSI result follows include_macd.
CalculateAllIndicatorsRsiWithMacd(ohlcv_list, include_ma, include_rsi, include_macd) ==
    LET df == OhlcvToDataframe(ohlcv_list)
    IN [k \in IndicatorNames(include_ma, include_macd, include_macd) |->
            CASE k = "ma_20w" -> MaPayload(df, MaPeriodMap("20W")[1])
              [] k = "ma_50w" -> MaPayload(df, MaPeriodMap("50W")[1])
              [] k = "ma_100w" -> MaPayload(df, MaPeriodMap("100W")[1])
              [] k = "ma_200w" -> MaPayload(df, MaPeriodMap("200W")[1])
              [] k = "rsi" -> RsiPayload(df, RsiPeriod)
              [] k = "macd" -> MacdPayload(df, MacdFast, MacdSlow, MacdSignal)]

\* IndicatorCalculator.calculate_all_indicators and the model_dump of each
\* requested result: indicator name -> payload.
CalculateAllIndicators(ohlcv_list, include_ma, include_rsi, include_macd) ==
    LET df == OhlcvToDataframe(ohlcv_list)
    IN [k \in IndicatorNames(include_ma, include_rsi, include_macd) |->
            CASE k = "ma_20w" -> MaPayload(df, MaPeriodMap("20W")[1])
              [] k = "ma_50w" -> MaPayload(df, MaPeriodMap("50W")[1])
              [] k = "ma_100w" -> MaPayload(df, MaPeriodMap("100W")[1])
              [] k = "ma_200w" -> MaPayload(df, MaPeriodMap("200W")[1])
              [] k = "rsi" -> RsiPayload(df, RsiPeriod)
              [] k = "macd" -> MacdPayload(df, MacdFast, MacdSlow, MacdSignal)]

\* The payload fields that hold a list: the value series of a result.
SeriesFields == {"values", "macd_line", "signal_line", "histogram"}

\* A mutant of SliceIndicatorPayload: the MACD series are left unsliced.
SliceIndicatorPayloadValuesOnly(indicators, length) ==
    IF length <= 0 THEN indicators
    ELSE [k \in DOMAIN indicators |->
            [f \in DOMAIN indicators[k] |->
                IF f = "values" THEN LastN(indicators[k][f], length)
                ELSE indicators[k][f]]]

\* A mutant of SliceIndicatorPayload: every series keeps one entry more
\* than there are bars.
SliceIndicatorPayloadOneMore(indicators, length) ==
    IF length <= 0 THEN indicators
    ELSE [k \in DOMAIN indicators |->
            [f \in DOMAIN indicators[k] |->
                IF f \in SeriesFields THEN LastN(indicators[k][f], length + 1)
                ELSE indicators[k][f]]]

\* _slice_indicator_payload(indicators, length)
SliceIndicatorPayload(indicators, length) ==
    IF length <= 0 THEN indicators
    ELSE [k \in DOMAIN indicators |->
            [f \in DOMAIN indicators[k] |->
                IF f \in SeriesFields THEN LastN(indicators[k][f], length)
                ELSE indicators[k][f]]]

\* The (ISO year, ISO week) keys of a bar list.
WeekKeys(ohlcv) == {IsoCalendar(ohlcv[i].timestamp) : i \in 1..Len(ohlcv)}

\* The bars of one week, in list order: weekly[key].
WeekBars(ohlcv, key) ==
    LET InWeek(bar) == IsoCalendar(bar.timestamp) = key
    IN SelectSeq(ohlcv, InWeek)

\* The weekly bar that _resample_to_weekly appends for one group.
WeeklyBar(bars) ==
    [timestamp |-> bars[Len(bars)].timestamp,
     open |-> bars[1].open,
     high |-> CHOOSE h \in {bars[i].high : i \in 1..Len(bars)} :
                  \A i \in 1..Len(bars) : bars[i].high <= h,
     low |-> CHOOSE l \in {bars[i].low : i \in 1..Len(bars)} :
                  \A i \in 1..Len(bars) : l <= bars[i].low,
     close |-> bars[Len(bars)].close,
     volume |-> SumRange([i \in 1..Len(bars) |-> bars[i].volume], 1, Len(bars))]

\* A mutant of ResampleToWeekly: the groups are keyed by the week number
\* alone and emitted in week-number order.
ResampleToWeeklyByWeekNumber(ohlcv) ==
    LET weeks == {IsoCalendar(ohlcv[i].timestamp)[2] : i \in 1..Len(ohlcv)}
        Rank(w) == Cardinality({v \in weeks : v < w}) + 1
        InWeek(w) ==
            LET Test(bar) == IsoCalendar(bar.timestamp)[2] = w
            IN SelectSeq(ohlcv, Test)
    IN [i \in 1..Cardinality(weeks) |->
            WeeklyBar(InWeek(CHOOSE w \in weeks : Rank(w) = i))]

\* A mutant of ResampleToWeekly: the weekly bar closes at the first bar's
\* close.
ResampleToWeeklyFirstClose(ohlcv) ==
    LET keys == WeekKeys(ohlcv)
        Rank(key) == Cardinality({k \in keys : WeekKeyLess(k, key)}) + 1
    IN [i \in 1..Cardinality(keys) |->
            LET bars == WeekBars(ohlcv, CHOOSE key \in keys : Rank(key) = i)
            IN [WeeklyBar(bars) EXCEPT !.close = bars[1].close]]

\* _resample_to_weekly(ohlcv): one bar per (ISO year, ISO week) key, the keys
\* in ascending order (sorted(weekly.keys())).
ResampleToWeekly(ohlcv) ==
    LET keys == WeekKeys(ohlcv)
        Rank(key) == Cardinality({k \in keys : WeekKeyLess(k, key)}) + 1
    IN [i \in 1..Cardinality(keys) |->
            WeeklyBar(WeekBars(ohlcv, CHOOSE key \in keys : Rank(key) = i))]

\* _resample_series_to_week(series, week_keys, week_dates): per weekly bar
\* the value of the last series entry of that week (grouped[key] is
\* overwritten in series order), or None when the week has no entry.
ResampleSeriesToWeek(series, week_keys, week_dates) ==
    [i \in 1..Len(week_keys) |->
        LET hits == {j \in 1..Len(series) :
                        IsoCalendar(series[j][1]) = week_keys[i]}
        IN IF hits = {} THEN <<week_dates[i], None>>
           ELSE <<week_dates[i],
                  series[CHOOSE j \in hits : \A h \in hits : h <= j][2]>>]

\* A mutant of ResampleIndicatorPayload: an empty series is resampled too.
ResampleIndicatorPayloadEmptyToo(indicators, weekly_ohlcv) ==
    IF Len(weekly_ohlcv) = 0 THEN indicators
    ELSE LET n == Len(weekly_ohlcv)
             week_keys == [i \in 1..n |-> IsoCalendar(weekly_ohlcv[i].timestamp)]
             week_dates == [i \in 1..n |-> weekly_ohlcv[i].timestamp]
         IN [k \in DOMAIN indicators |->
                [f \in DOMAIN indicators[k] |->
                    IF f \in SeriesFields
                    THEN ResampleSeriesToWeek(indicators[k][f], week_keys, week_dates)
                    ELSE indicators[k][f]]]

\* A mutant of ResampleIndicatorPayload: the series are left at their daily
\* cadence.
ResampleIndicatorPayloadSkip(indicators, weekly_ohlcv) == indicators

\* _resample_indicator_payload(indicators, weekly_ohlcv): every non-empty
\* list field of every payload is resampled to the weekly bars.
ResampleIndicatorPayload(indicators, weekly_ohlcv) ==
    IF Len(weekly_ohlcv) = 0 THEN indicators
    ELSE LET n == Len(weekly_ohlcv)
             week_keys == [i \in 1..n |-> IsoCalendar(weekly_ohlcv[i].timestamp)]
             week_dates == [i \in 1..n |-> weekly_ohlcv[i].timestamp]
         IN [k \in DOMAIN indicators |->
                [f \in DOMAIN indicators[k] |->
                    IF f \in SeriesFields /\ Len(indicators[k][f]) > 0
                    THEN ResampleSeriesToWeek(indicators[k][f], week_keys, week_dates)
                    ELSE indicators[k][f]]]

\* get_stock_chart: full_ohlcv[-period_days:] when there are more bars than
\* the period has days.
SlicedOhlcv(full_ohlcv, period) ==
    IF Len(full_ohlcv) > PeriodDays(period)
    THEN LastN(full_ohlcv, PeriodDays(period))
    ELSE full_ohlcv

\* get_stock_chart from the fetched bars to the ChartData it builds.
BuildChart(req, full_ohlcv) ==
    LET computed == CalculateAllIndicators(full_ohlcv, req.include_ma,
                                           req.include_rsi, req.include_macd)
        sliced_ohlcv == SlicedOhlcv(full_ohlcv, req.period)
        sliced == SliceIndicatorPayload(computed, Len(sliced_ohlcv))
        weekly_ohlcv == ResampleToWeekly(sliced_ohlcv)
    IN [symbol |-> req.symbol,
        timeframe |-> req.timeframe,
        period |-> req.period,
        ohlcv |-> IF req.timeframe = "1W" THEN weekly_ohlcv ELSE sliced_ohlcv,
        indicators |-> IF req.timeframe = "1W"
                       THEN ResampleIndicatorPayload(sliced, weekly_ohlcv)
                       ELSE sliced]

\* str.upper() on a symbol of ASCII character codes.
Upper(symbol) ==
    [i \in 1..Len(symbol) |->
        IF symbol[i] \in 97..122 THEN symbol[i] - 32 ELSE symbol[i]]

\* CacheKeys.chart(symbol, timeframe, period, include_ma, include_rsi,
\* include_macd): the prefix, the upper-cased symbol and the hash of the
\* parameters' JSON with its keys sorted; the hash is taken to tell two
\* different JSON texts apart.
ChartKey(req) ==
    <<"argus", "chart", Upper(req.symbol),
      <<req.include_ma, req.include_macd, req.include_rsi, req.period,
        req.timeframe>>>>

\* The classmethods that CacheTTL defines.
CacheTTLMethods ==
    {"quote", "ohlcv_daily", "ohlcv_weekly", "indicators", "screener",
     "universe", "stock_info", "search"}

\* _get_ohlcv_for_indicators_sync(symbol, ma_period, full_history=False): the
\* last period + 50 bars of the provider's daily history.
OhlcvForIndicators(hist, ma_period) ==
    LastN(hist, (IF MaPeriodMap(ma_period) = None THEN 1000
                    ELSE MaPeriodMap(ma_period)[1]) + 50)

\* MarketDataService.get_ohlcv_for_indicators(symbol, "200W") under a fault
\* of the provider call: the bars, or the empty list after a timeout
\* (asyncio.wait_for) or an exception of the provider.
GetOhlcvForIndicators(hist, ma_period, fault) ==
    IF fault = "none" THEN OhlcvForIndicators(hist, ma_period) ELSE <<>>

\* The query of a chart request after FastAPI's validation.
ChartRequest(symbol, timeframe, period, include_ma, include_rsi, include_macd) ==
    [symbol |-> symbol, timeframe |-> timeframe, period |-> period,
     include_ma |-> include_ma, include_rsi |-> include_rsi,
     include_macd |-> include_macd]

\* How a get_stock_chart call ends.
ChartReturned(chart) == [kind |-> "chart", chart |-> chart]
ChartRaised(error) == [kind |-> "raised", error |-> error]

\* GET /stocks/{symbol}/chart arrives: symbol = symbol.upper().  The
\* provider's history of the symbol is fixed for the call.
ChartCall(req, hist) ==
    /\ cpc \in {"idle", "done"}
    /\ cpc' = "cacheget"
    /\ creq' = [req EXCEPT !.symbol = Upper(req.symbol)]
    /\ chist' = hist
    /\ cfull' = <<>>
    /\ cchart' = <<>>
    /\ cresult' = <<>>
    /\ UNCHANGED sigVars
    /\ UNCHANGED opsVars
    /\ UNCHANGED fnVars
    /\ UNCHANGED scrVars

\* get_stock_chart: cached = await cache.get(cache_key); a cached chart is
\* returned as it is.
ChartCacheGet ==
    /\ cpc = "cacheget"
    /\ LET cached == CacheGet(cache, cacheUp, ChartKey(creq)) IN
        IF cached # None
        THEN /\ cpc' = "done"
             /\ cresult' = Some(ChartReturned(cached[1]))
        ELSE /\ cpc' = "fetch"
             /\ UNCHANGED cresult
    /\ UNCHANGED <<creq, chist, cfull, cchart>>
    /\ UNCHANGED sigVars
    /\ UNCHANGED opsVars
    /\ UNCHANGED fnVars
    /\ UNCHANGED scrVars

\* get_stock_chart: full_ohlcv = await get_ohlcv_for_indicators(symbol,
\* "200W"); no bars raise NotFoundError.
ChartFetch(fault) ==
    /\ cpc = "fetch"
    /\ LET full_ohlcv == GetOhlcvForIndicators(chist, "200W", fault) IN
        IF full_ohlcv = <<>>
        THEN /\ cpc' = "done"
             /\ cresult' = Some(ChartRaised("NotFoundError"))
             /\ UNCHANGED cfull
        ELSE /\ cpc' = "build"
             /\ cfull' = full_ohlcv
             /\ UNCHANGED cresult
    /\ UNCHANGED <<creq, chist, cchart>>
    /\ UNCHANGED sigVars
    /\ UNCHANGED opsVars
    /\ UNCHANGED fnVars
    /\ UNCHANGED scrVars

\* get_stock_chart: the indicators on the full history, the period slice,
\* the weekly resampling and the ChartData.
ChartBuild ==
    /\ cpc = "build"
    /\ cpc' = "store"
    /\ cchart' = BuildChart(creq, cfull)
    /\ UNCHANGED <<creq, chist, cfull, cresult>>
    /\ UNCHANGED sigVars
    /\ UNCHANGED opsVars
    /\ UNCHANGED fnVars
    /\ UNCHANGED scrVars

\* get_stock_chart: await cache.set(cache_key, chart.model_dump(),
\* CacheTTL.chart()) and return chart.  The arguments are evaluated before
\* the call: looking up an attribute that CacheTTL does not define raises
\* AttributeError out of the handler.
ChartStore ==
    /\ cpc = "store"
    /\ cpc' = "done"
    /\ IF "chart" \in CacheTTLMethods
       THEN /\ cache' = CacheSet(cache, cacheUp, ChartKey(creq), cchart)
            /\ cresult' = Some(ChartReturned(cchart))
       ELSE /\ cresult' = Some(ChartRaised("AttributeError"))
            /\ UNCHANGED cache
    /\ UNCHANGED <<creq, chist, cfull, cchart>>
    /\ UNCHANGED <<universe, market, cacheUp, spc, request, tasks, sem,
                   pending, response, history, runs, pfaults>>
    /\ UNCHANGED sigVars
    /\ UNCHANGED opsVars
    /\ UNCHANGED fnVars

(***************************************************************************)
(* The data the chart calls are explored on                                *)
(***************************************************************************)

\* Bounds of the exploration: the longest provider history, in bars, and
\* the index of its first trading day.
MaxBars == 130
FirstTradingDay == 161

\* The day number of the k-th trading day: Monday to Friday of every week.
TradingDay(k) == 7 * (k \div 5) + (k % 5)

\* A bar with the prices and the volume of bar number k: prices that rise
\* and fall from bar to bar, high and low outside open and close.
BarAt(timestamp, k) ==
    [timestamp |-> timestamp,
     open |-> 10000 + 10 * ((5 * k) % 19),
     high |-> (IF (5 * k) % 19 > (7 * k) % 23
               THEN 10000 + 10 * ((5 * k) % 19)
               ELSE 10000 + 10 * ((7 * k) % 23)) + 10 * (k % 3),
     low |-> (IF (5 * k) % 19 < (7 * k) % 23
              THEN 10000 + 10 * ((5 * k) % 19)
              ELSE 10000 + 10 * ((7 * k) % 23)) - 10 * ((k + 1) % 3),
     close |-> 10000 + 10 * ((7 * k) % 23),
     volume |-> 100 + (k % 7)]

\* The provider's bar of the k-th trading day.
ProviderBar(k) == BarAt(TradingDay(k), k)

\* A provider history: the n trading days up to the last one explored.
History(n) ==
    [i \in 1..n |-> ProviderBar(FirstTradingDay + MaxBars - n + i - 1)]

\* The lengths of the histories explored: none, too short for MACD and the
\* MAs, one bar more than three months, and long enough for the 20-week MA.
ChartHistoryLengths == {0, 20, 64, MaxBars}

\* The chart requests explored.
ChartRequests ==
    {ChartRequest(s, tf, p, ma, rsi, macd) :
        s \in {<<65, 65>>}, tf \in {"1D", "1W"}, p \in {"3M", "6M", "1Y"},
        ma \in BOOLEAN, rsi \in BOOLEAN, macd \in BOOLEAN}
    \cup {ChartRequest(<<97, 97>>, "1D", "1Y", TRUE, FALSE, FALSE)}

(***************************************************************************)
(* Part VI.  Universe manager: calls interleaved at their awaits           *)
(***************************************************************************)

\* The list get_universe builds from the rows its select returned.
ActiveList(table) ==
    LET active == SelectSeq(table, LAMBDA s : s.is_active)
    IN [i \in 1..Len(active) |->
            [symbol |-> active[i].symbol, name |-> active[i].name,
             sector |-> active[i].sector]]

\* True when the table has a row for the symbol, active or not.
HasRow(table, symbol) == \E i \in 1..Len(table) : table[i].symbol = symbol

\* stock.is_active = False on the row of the symbol.
Deactivate(table, symbol) ==
    [i \in 1..Len(table) |->
        IF table[i].symbol = symbol THEN [table[i] EXCEPT !.is_active = FALSE]
        ELSE table[i]]

\* A stock that is not in DEFAULT_UNIVERSE, for add_stock: "NV" "Nv".
NewStock == [symbol |-> <<78, 86>>, name |-> <<78, 118>>, sector |-> "Technology"]

\* The operations explored, with their symbol argument: get_universe,
\* remove_stock of the first default stock (given in lower case),
\* add_stock of a new stock, update_market_caps and initialize_universe.
UniverseOps ==
    {<<"get", <<>>>>, <<"remove", <<97, 97>>>>, <<"add", NewStock.symbol>>,
     <<"update", <<>>>>, <<"init", <<>>>>}

\* A call of the universe manager starts and runs up to its first await:
\* the cache read of get_universe, the select of remove_stock, the commit of
\* the other mutations.  Calls start in the order of their numbers.
UniCallStart(c, op, symbol) ==
    /\ ucalls[c].pc = "idle"
    /\ \A d \in UniverseCalls : d < c => ucalls[d].pc # "idle"
    /\ ucalls' = [ucalls EXCEPT ![c] =
            [op |-> op,
             pc |-> IF op = "get" THEN "cacheget"
                    ELSE IF op = "remove" THEN "select" ELSE "commit",
             symbol |-> Upper(symbol),
             stocks |-> <<>>,
             result |-> None,
             after |-> removed]]
    /\ UNCHANGED <<removed, sweep, dpc, dtasks, dsem, sessions>>
    /\ UNCHANGED sigVars
    /\ UNCHANGED scrVars
    /\ UNCHANGED chVars
    /\ UNCHANGED fnVars

\* get_universe: cached = await cache_service.get(key); a non-empty cached
\* list is returned.
UniGetCache(c) ==
    /\ ucalls[c].op = "get"
    /\ ucalls[c].pc = "cacheget"
    /\ LET cached == CacheGet(cache, cacheUp, UniverseKey) IN
        ucalls' = [ucalls EXCEPT ![c] =
            IF cached # None /\ cached[1] # <<>>
            THEN [@ EXCEPT !.pc = "returned", !.result = Some(cached[1])]
            ELSE [@ EXCEPT !.pc = "select"]]
    /\ UNCHANGED <<removed, sweep, dpc, dtasks, dsem, sessions>>
    /\ UNCHANGED sigVars
    /\ UNCHANGED scrVars
    /\ UNCHANGED chVars
    /\ UNCHANGED fnVars

\* get_universe: await db.execute(select ... is_active == True) returns and
\* the list is built from its rows.
UniGetSelect(c) ==
    /\ ucalls[c].op = "get"
    /\ ucalls[c].pc = "select"
    /\ ucalls' = [ucalls EXCEPT ![c] =
            [@ EXCEPT !.pc = "cacheset", !.stocks = ActiveList(universe)]]
    /\ UNCHANGED <<removed, sweep, dpc, dtasks, dsem, sessions>>
    /\ UNCHANGED sigVars
    /\ UNCHANGED scrVars
    /\ UNCHANGED chVars
    /\ UNCHANGED fnVars

\* get_universe: await cache_service.set(key, universe, ttl) completes and
\* the list is returned.
UniGetSet(c) ==
    /\ ucalls[c].op = "get"
    /\ ucalls[c].pc = "cacheset"
    /\ cache' = CacheSet(cache, cacheUp, UniverseKey, ucalls[c].stocks)
    /\ ucalls' = [ucalls EXCEPT ![c] =
            [@ EXCEPT !.pc = "returned", !.result = Some(ucalls[c].stocks),
                      !.stocks = <<>>]]
    /\ UNCHANGED <<removed, sweep, dpc, dtasks, dsem, sessions>>
    /\ UNCHANGED <<universe, market, cacheUp, spc, request, tasks, sem,
                   pending, response, history, runs, pfaults>>
    /\ UNCHANGED sigVars
    /\ UNCHANGED chVars
    /\ UNCHANGED fnVars

\* remove_stock: the select of the symbol's row returns; no row returns False.
UniRemoveSelect(c) ==
    /\ ucalls[c].op = "remove"
    /\ ucalls[c].pc = "select"
    /\ ucalls' = [ucalls EXCEPT ![c] =
            IF HasRow(universe, ucalls[c].symbol)
            THEN [@ EXCEPT !.pc = "commit"]
            ELSE [@ EXCEPT !.pc = "returned", !.result = Some(FALSE)]]
    /\ UNCHANGED <<removed, sweep, dpc, dtasks, dsem, sessions>>
    /\ UNCHANGED sigVars
    /\ UNCHANGED scrVars
    /\ UNCHANGED chVars
    /\ UNCHANGED fnVars

\* await db.commit() of a mutation completes: remove_stock deactivates the
\* row; add_stock inserts an active row, or fails on the primary key when
\* the symbol has a row; update_market_caps changes market caps only, which
\* the rows here do not carry; initialize_universe adds the missing default
\* stocks.
UniCommit(c) ==
    LET call == ucalls[c] IN
    /\ call.op \in {"remove", "add", "update", "init"}
    /\ call.pc = "commit"
    /\ IF call.op = "add" /\ HasRow(universe, call.symbol)
       THEN /\ ucalls' = [ucalls EXCEPT ![c] =
                    [@ EXCEPT !.pc = "returned",
                              !.result = Some("IntegrityError")]]
            /\ UNCHANGED universe
       ELSE /\ ucalls' = [ucalls EXCEPT ![c] = [@ EXCEPT !.pc = "delete"]]
            /\ universe' =
                CASE call.op = "remove" -> Deactivate(universe, call.symbol)
                  [] call.op = "add" ->
                        Append(universe, UniverseRow(NewStock, TRUE))
                  [] call.op = "update" -> universe
                  [] call.op = "init" ->
                        InitializeUniverse(universe, Len(DefaultUniverse))
    /\ UNCHANGED <<removed, sweep, dpc, dtasks, dsem, sessions>>
    /\ UNCHANGED <<market, cache, cacheUp, spc, request, tasks, sem,
                   pending, response, history, runs, pfaults>>
    /\ UNCHANGED sigVars
    /\ UNCHANGED chVars
    /\ UNCHANGED fnVars

\* await cache_service.delete(key) of a mutation completes and the call
\* returns.
UniDelete(c) ==
    LET call == ucalls[c] IN
    /\ call.pc = "delete"
    /\ cache' = CacheDelete(cache, cacheUp, UniverseKey)
    /\ ucalls' = [ucalls EXCEPT ![c] =
            [@ EXCEPT !.pc = "returned", !.result = Some(TRUE)]]
    /\ removed' = IF call.op = "remove" THEN removed \cup {call.symbol}
                  ELSE removed
    /\ UNCHANGED <<sweep, dpc, dtasks, dsem, sessions>>
    /\ UNCHANGED <<universe, market, cacheUp, spc, request, tasks, sem,
                   pending, response, history, runs, pfaults>>
    /\ UNCHANGED sigVars
    /\ UNCHANGED chVars
    /\ UNCHANGED fnVars

(***************************************************************************)
(* Part VII.  detect_all_signals: the sweep's totals                       *)
(***************************************************************************)

\* How detect_signals_for_stock ends without calling save_signal: the
\* provider has no bars or the detectors found nothing (it returns (0, 0)),
\* the bar fetch timed out or failed (get_ohlcv_for_indicators returns [],
\* so it returns (0, 0)), or a detector raised (its except clause returns
\* (0, 0)).
QuietOutcomes == {"no_bars", "no_signals", "provider_fault", "detector_error"}

\* detect_signals_for_stock of task t returns (0, 0) before any save.
DetectEnd(t, outcome) ==
    /\ stask[t].pc = "idle"
    /\ stask' = [stask EXCEPT ![t] =
            ReturnedTask(IF outcome \in {"provider_fault", "detector_error"}
                         THEN "failed" ELSE "done", 0, 0)]
    /\ UNCHANGED <<now, signals, saveCalls, faults>>
    /\ UNCHANGED scrVars
    /\ UNCHANGED chVars
    /\ UNCHANGED fnVars
    /\ UNCHANGED opsVars

RECURSIVE SumOver(_, _)
\* The sum of f[x] over the elements x of a finite set.
SumOver(S, f) ==
    IF S = {} THEN 0
    ELSE LET x == CHOOSE y \in S : TRUE
         IN f[x] + SumOver(S \ {x}, f)

\* detect_all_signals after gather(*tasks, return_exceptions=True): a result
\* that is an exception adds 1 to errors, any other adds its (detected,
\* saved) to the totals.  detect_signals_for_stock catches Exception and
\* returns (0, 0), so every task's result is a pair and no task is left in
\* position "raised".
SweepSum(job) ==
    LET results == [s \in SweepSymbols |-> stask[<<job, s>>]]
        raised == {s \in SweepSymbols : results[s].pc = "raised"}
        pairs == SweepSymbols \ raised
    IN
    /\ sweep[job].pc = "running"
    /\ \A s \in SweepSymbols : results[s].ret # None
    /\ sweep' = [sweep EXCEPT ![job] =
            [pc |-> "completed",
             signals_detected |->
                 SumOver(pairs, [s \in pairs |-> results[s].ret[1][1]]),
             signals_saved |->
                 SumOver(pairs, [s \in pairs |-> results[s].ret[1][2]]),
             errors |-> Cardinality(raised)]]
    /\ UNCHANGED <<ucalls, removed, dpc, dtasks, dsem, sessions>>
    /\ UNCHANGED sigVars
    /\ UNCHANGED scrVars
    /\ UNCHANGED chVars
    /\ UNCHANGED fnVars

(***************************************************************************)
(* Part VIII.  Market data service: the provider calls and their timeout   *)
(***************************************************************************)

\* settings.market_data_timeout, seconds.
MarketDataTimeout == 30

\* One blocking provider call run by asyncio.to_thread: how long it takes,
\* in seconds, and whether it returns a value or raises an exception.
ProviderCall(duration, outcome, value) ==
    [duration |-> duration, outcome |-> outcome, value |-> value]

\* A mutant of WaitFor: the call is awaited without a timeout.
WaitForUnbounded(call, timeout) ==
    IF call.outcome = "raises"
    THEN [kind |-> "raise", error |-> call.value, elapsed |-> call.duration]
    ELSE [kind |-> "return", value |-> call.value, elapsed |-> call.duration]

\* A mutant of WaitFor: a timeout yields what the call would have returned.
WaitForLate(call, timeout) ==
    IF call.outcome = "raises"
    THEN [kind |-> "raise", error |-> call.value,
          elapsed |-> IF call.duration > timeout THEN timeout ELSE call.duration]
    ELSE [kind |-> "return", value |-> call.value,
          elapsed |-> IF call.duration > timeout THEN timeout ELSE call.duration]

\* await asyncio.wait_for(asyncio.to_thread(f, ...), timeout=timeout): after
\* `timeout` seconds the wait is cancelled and TimeoutError is raised;
\* before that the call's value is returned or its exception raised.
WaitFor(call, timeout) ==
    IF call.duration > timeout
    THEN [kind |-> "raise", error |-> "TimeoutError", elapsed |-> timeout]
    ELSE IF call.outcome = "raises"
    THEN [kind |-> "raise", error |-> call.value, elapsed |-> call.duration]
    ELSE [kind |-> "return", value |-> call.value, elapsed |-> call.duration]

\* The worker thread that asyncio.to_thread started for the call is still
\* running the provider's blocking function `elapsed` seconds after its
\* start: the cancellation that wait_for performs at the timeout ends the
\* await, a thread that runs is not stopped and works on for the call's
\* duration.
ThreadRunning(call, elapsed) == call.duration > elapsed

\* What a service method hands to its caller, and after how long.
ServiceReturn(value, elapsed) ==
    [kind |-> "return", value |-> value, elapsed |-> elapsed]

\* _get_quote_sync(symbol): no quote without ticker info; else the change
\* from the previous close in cents and in hundredths of a percent, both 0
\* when there is no previous close.
GetQuoteSync(info) ==
    IF info = None THEN None
    ELSE LET price == info[1].price
             prev_close == info[1].prev_close
             change == IF prev_close # 0 THEN price - prev_close ELSE 0
         IN Some(QuoteOf(change,
                         IF prev_close # 0
                         THEN RoundDiv(10000 * change, prev_close) ELSE 0,
                         info[1].market_cap))

\* MarketDataService.get_quote(symbol): both except clauses return None.
ServiceGetQuote(call) ==
    LET r == WaitFor(call, MarketDataTimeout) IN
    IF r.kind = "raise" /\ r.error = "TimeoutError"
    THEN ServiceReturn(None, r.elapsed)
    ELSE IF r.kind = "raise"
    THEN ServiceReturn(None, r.elapsed)
    ELSE ServiceReturn(r.value, r.elapsed)

\* MarketDataService.get_ohlcv(symbol, period, timeframe): both except
\* clauses return [].
ServiceGetOhlcv(call) ==
    LET r == WaitFor(call, MarketDataTimeout) IN
    IF r.kind = "raise" /\ r.error = "TimeoutError"
    THEN ServiceReturn(<<>>, r.elapsed)
    ELSE IF r.kind = "raise"
    THEN ServiceReturn(<<>>, r.elapsed)
    ELSE ServiceReturn(r.value, r.elapsed)

\* MarketDataService.get_ohlcv_for_indicators(symbol, ma_period): both
\* except clauses return [].
ServiceGetOhlcvForIndicators(call) ==
    LET r == WaitFor(call, MarketDataTimeout) IN
    IF r.kind = "raise" /\ r.error = "TimeoutError"
    THEN ServiceReturn(<<>>, r.elapsed)
    ELSE IF r.kind = "raise"
    THEN ServiceReturn(<<>>, r.elapsed)
    ELSE ServiceReturn(r.value, r.elapsed)

\* The provider call under get_quote: _get_quote_sync on the ticker info
\* the provider holds, or the exception the provider raises.
QuoteCall(duration, info, error) ==
    IF error = None THEN ProviderCall(duration, "returns", GetQuoteSync(info))
    ELSE ProviderCall(duration, "raises", error[1])

\* The provider call under get_ohlcv: the provider's bars for the period and
\* interval asked for ([] when history.empty), or its exception.
OhlcvCall(duration, hist, error) ==
    IF error = None THEN ProviderCall(duration, "returns", hist)
    ELSE ProviderCall(duration, "raises", error[1])

\* The provider call under get_ohlcv_for_indicators:
\* _get_ohlcv_for_indicators_sync on the provider's daily history, or the
\* provider's exception.
OhlcvForIndicatorsCall(duration, hist, ma_period, error) ==
    IF error = None
    THEN ProviderCall(duration, "returns", OhlcvForIndicators(hist, ma_period))
    ELSE ProviderCall(duration, "raises", error[1])

\* get_quote is called on its own, once in a behaviour.
GetQuoteCalled(duration, info, error) ==
    /\ fname = "none"
    /\ fname' = "get_quote"
    /\ farg' = [duration |-> duration, data |-> info, error |-> error]
    /\ fret' = ServiceGetQuote(QuoteCall(duration, info, error))
    /\ UNCHANGED sigVars
    /\ UNCHANGED scrVars
    /\ UNCHANGED chVars
    /\ UNCHANGED opsVars

\* get_ohlcv is called on its own.
GetOhlcvCalled(duration, hist, error) ==
    /\ fname = "none"
    /\ fname' = "get_ohlcv"
    /\ farg' = [duration |-> duration, data |-> hist, error |-> error]
    /\ fret' = ServiceGetOhlcv(OhlcvCall(duration, hist, error))
    /\ UNCHANGED sigVars
    /\ UNCHANGED scrVars
    /\ UNCHANGED chVars
    /\ UNCHANGED opsVars

\* get_ohlcv_for_indicators is called on its own.
GetOhlcvForIndicatorsCalled(duration, hist, ma_period, error) ==
    /\ fname = "none"
    /\ fname' = "get_ohlcv_for_indicators"
    /\ farg' = [duration |-> duration, data |-> hist, error |-> error,
                 ma_period |-> ma_period]
    /\ fret' = ServiceGetOhlcvForIndicators(
                   OhlcvForIndicatorsCall(duration, hist, ma_period, error))
    /\ UNCHANGED sigVars
    /\ UNCHANGED scrVars
    /\ UNCHANGED chVars
    /\ UNCHANGED opsVars

\* Bound of the exploration: the longest provider call, in seconds.
MaxDuration == 31

\* How long the provider calls explored take: no time, half the timeout,
\* just inside the timeout, and beyond it.
Durations == {0, 15, MarketDataTimeout - 1, MaxDuration}

\* The ticker infos explored: none, and prices in cents with and without a
\* previous close and a market cap.
TickerInfos ==
    {None} \cup
    {Some([price |-> p, prev_close |-> c, market_cap |-> m]) :
        p \in {9970, 10050}, c \in {0, 10000}, m \in {None, Some(5)}}

\* The exceptions the provider raises, and None for a call that returns.
ProviderErrors == {None, Some("ConnectionError"), Some("KeyError")}

\* The lengths of the provider histories explored for the bar fetches.
ServiceHistoryLengths == {0, 1, 2, 5}

(***************************************************************************)
(* Part IX.  Chart and indicator functions called on their own             *)
(***************************************************************************)

\* A daily bar on calendar day d, weekends included, with the prices and
\* the volume of bar number d.
DailyBar(d) == BarAt(d, d)

\* The calendar days the resampling inputs are drawn from: Monday
\* 2024-01-01 and the nine days after it, and Sunday 2024-12-29 and Monday
\* 2024-12-30, the last day of ISO year 2024 and the first of ISO year 2025.
ResampleDays == (0..9) \cup {363, 364}

\* The bars of a set of days, in ascending order of the days.
BarsOn(days) ==
    LET Rank(d) == Cardinality({e \in days : e < d}) + 1
    IN [i \in 1..Cardinality(days) |-> DailyBar(CHOOSE d \in days : Rank(d) = i)]

\* _resample_to_weekly is called on its own, once in a behaviour.
ResampleToWeeklyCalled(ohlcv) ==
    /\ fname = "none"
    /\ fname' = "_resample_to_weekly"
    /\ farg' = ohlcv
    /\ fret' = ResampleToWeekly(ohlcv)
    /\ UNCHANGED sigVars
    /\ UNCHANGED scrVars
    /\ UNCHANGED chVars
    /\ UNCHANGED opsVars

\* The calendar days the indicator payloads and their weekly bars are drawn
\* from: two days of the first ISO week of 2024, two of the second, the last
\* day of ISO year 2024 and the first of ISO year 2025.
PayloadDays == {0, 6, 7, 9, 363, 364}

\* A value series with one entry (timestamp, close) per day of a set, in
\* ascending order of the days.
SeriesOn(days) ==
    LET bars == BarsOn(days)
    IN [i \in 1..Len(bars) |-> <<bars[i].timestamp, Some(bars[i].close)>>]

\* An indicator payload as get_stock_chart builds it from model_dump(): a
\* moving average with a period and a value series, and a MACD with three
\* series of which the histogram is the given one.
PayloadOf(series, histogram) ==
    [ma_20w |-> [period |-> 100, values |-> series],
     macd |-> [macd_line |-> series, signal_line |-> series,
               histogram |-> histogram]]

\* _resample_indicator_payload is called on its own, once in a behaviour.
ResampleIndicatorPayloadCalled(indicators, weekly_ohlcv) ==
    /\ fname = "none"
    /\ fname' = "_resample_indicator_payload"
    /\ farg' = [indicators |-> indicators, weekly_ohlcv |-> weekly_ohlcv]
    /\ fret' = ResampleIndicatorPayload(indicators, weekly_ohlcv)
    /\ UNCHANGED sigVars
    /\ UNCHANGED scrVars
    /\ UNCHANGED chVars
    /\ UNCHANGED opsVars

\* Bound of the exploration: the longest list of closes given to
\* calculate_ma_result.
MaxCloses == 5

\* The closes the lists are made of, in cents: 10, 20, 30, 40 and 50.
TestCloses == {1000, 2000, 3000, 4000, 5000}

\* Every list of n closes.
CloseLists(n) == [1..n -> TestCloses]

\* The daily bars with the given closes, from day 0 on.
BarsClosing(closes) ==
    [i \in 1..Len(closes) |->
        [timestamp |-> i - 1, open |-> closes[i], high |-> closes[i] + 100,
         low |-> closes[i] - 100, close |-> closes[i], volume |-> 1000]]

\* The periods calculate_ma_result is called with on the lists of closes.
TestPeriods == {1, 2, 3}

\* The lengths of the provider histories the three results are computed
\* on: up to a few bars past the MACD threshold, and around the 20-week
\* period.
IndicatorHistoryLengths == (0..40) \cup {99, 100}

\* calculate_ma_result(ohlcv_to_dataframe(ohlcv_list), period) is called on
\* its own, once in a behaviour.
CalculateMaResultCalled(ohlcv_list, period) ==
    /\ fname = "none"
    /\ fname' = "calculate_ma_result"
    /\ farg' = [ohlcv_list |-> ohlcv_list, period |-> period]
    /\ fret' = MaPayload(OhlcvToDataframe(ohlcv_list), period)
    /\ UNCHANGED sigVars
    /\ UNCHANGED scrVars
    /\ UNCHANGED chVars
    /\ UNCHANGED opsVars

\* calculate_rsi_result(ohlcv_to_dataframe(ohlcv_list)) is called on its
\* own with the default period, once in a behaviour.
CalculateRsiResultCalled(ohlcv_list) ==
    /\ fname = "none"
    /\ fname' = "calculate_rsi_result"
    /\ farg' = [ohlcv_list |-> ohlcv_list, period |-> RsiPeriod]
    /\ fret' = RsiPayload(OhlcvToDataframe(ohlcv_list), RsiPeriod)
    /\ UNCHANGED sigVars
    /\ UNCHANGED scrVars
    /\ UNCHANGED chVars
    /\ UNCHANGED opsVars

\* calculate_macd_result(ohlcv_to_dataframe(ohlcv_list)) is called on its
\* own with the default periods, once in a behaviour.
CalculateMacdResultCalled(ohlcv_list) ==
    /\ fname = "none"
    /\ fname' = "calculate_macd_result"
    /\ farg' = [ohlcv_list |-> ohlcv_list, fast_period |-> MacdFast,
                 slow_period |-> MacdSlow, signal_period |-> MacdSignal]
    /\ fret' = MacdPayload(OhlcvToDataframe(ohlcv_list), MacdFast, MacdSlow,
                           MacdSignal)
    /\ UNCHANGED sigVars
    /\ UNCHANGED scrVars
    /\ UNCHANGED chVars
    /\ UNCHANGED opsVars

\* A mutant of RsiValue: the flat window is not masked to 50, and 0 / 0
\* stays NaN.
RsiValueUnmasked(pair) ==
    IF pair[2] = 0
    THEN (IF pair[1] = 0 THEN None ELSE Some(<<100, 1>>))
    ELSE Some(<<100 * pair[1], pair[1] + pair[2]>>)

\* A mutant of RsiValue: no losses gives the neutral 50 as a flat window
\* does.
RsiValueNeutralWithoutLoss(pair) ==
    IF pair[2] = 0 THEN Some(<<50, 1>>)
    ELSE Some(<<100 * pair[1], pair[1] + pair[2]>>)

\* IndicatorCalculator.rsi, lines 135-140, on the window's <<gains, losses>>:
\* rs = avg_gain / avg_loss is NaN for 0 / 0 and inf for x / 0, the RSI
\* 100 - 100 / (1 + rs) is NaN for NaN, 100 for inf and 100 * gain / (gain +
\* loss) otherwise, and the flat mask puts 50 where both averages are 0.
\* The value is the optional fraction <<numerator, denominator>>, None for
\* NaN.
RsiValue(pair) ==
    LET avg_gain == pair[1]
        avg_loss == pair[2]
        rsi == IF avg_loss = 0
               THEN (IF avg_gain = 0 THEN None ELSE Some(<<100, 1>>))
               ELSE Some(<<100 * avg_gain, avg_gain + avg_loss>>)
        flat_mask == avg_gain = 0 /\ avg_loss = 0
    IN IF flat_mask THEN Some(<<50, 1>>) ELSE rsi

\* IndicatorCalculator.rsi(prices, period): one optional value per position,
\* NaN during the warm-up.
RsiSeries(prices, period) ==
    LET windows == Rsi(prices, period)
    IN [i \in 1..Len(prices) |->
            IF windows[i] = None THEN None ELSE RsiValue(windows[i][1])]

\* The closes the RSI is computed on: a level, a rise and a fall from it.
RsiCloses == {990, 1000, 1010}

\* Bound of the exploration: the longest list of closes given to rsi.
MaxRsiCloses == 6

\* IndicatorCalculator.rsi(prices, period) is called on its own, once in a
\* behaviour.
RsiCalled(prices, period) ==
    /\ fname = "none"
    /\ fname' = "rsi"
    /\ farg' = [prices |-> prices, period |-> period]
    /\ fret' = RsiSeries(prices, period)
    /\ UNCHANGED sigVars
    /\ UNCHANGED scrVars
    /\ UNCHANGED chVars
    /\ UNCHANGED opsVars

\* IndicatorCalculator.macd(prices, fast, slow, signal) is called on its
\* own, once in a behaviour.
MacdCalled(prices, fast_period, slow_period, signal_period) ==
    /\ fname = "none"
    /\ fname' = "macd"
    /\ farg' = [prices |-> prices, fast_period |-> fast_period,
                 slow_period |-> slow_period, signal_period |-> signal_period]
    /\ fret' = Macd(prices, fast_period, slow_period, signal_period)
    /\ UNCHANGED sigVars
    /\ UNCHANGED scrVars
    /\ UNCHANGED chVars
    /\ UNCHANGED opsVars

(***************************************************************************)
(* Part X.  Signal detectors called on their own                           *)
(***************************************************************************)

\* A mutant of Detect52wSignals: a new high is reported as a near high as
\* well.
Detect52wSignalsBoth(current_price, high_52w, low_52w, threshold_pct) ==
    LET high == IF high_52w = None \/ high_52w = Some(0) THEN <<>>
                ELSE (IF current_price >= high_52w[1]
                      THEN <<"new_52w_high">> ELSE <<>>)
                     \o (IF 100 * (high_52w[1] - current_price)
                              <= threshold_pct * high_52w[1]
                         THEN <<"near_52w_high">> ELSE <<>>)
        low == IF low_52w = None \/ low_52w = Some(0) THEN <<>>
               ELSE IF current_price <= low_52w[1] THEN <<"new_52w_low">>
               ELSE IF 100 * (current_price - low_52w[1])
                          <= threshold_pct * low_52w[1]
               THEN <<"near_52w_low">>
               ELSE <<>>
    IN high \o low

\* A mutant of Detect52wSignals: without a high the low is not looked at.
Detect52wSignalsHighFirst(current_price, high_52w, low_52w, threshold_pct) ==
    IF high_52w = None \/ high_52w = Some(0) THEN <<>>
    ELSE LET high == IF current_price >= high_52w[1] THEN <<"new_52w_high">>
                     ELSE IF 100 * (high_52w[1] - current_price)
                                <= threshold_pct * high_52w[1]
                     THEN <<"near_52w_high">>
                     ELSE <<>>
             low == IF low_52w = None \/ low_52w = Some(0) THEN <<>>
                    ELSE IF current_price <= low_52w[1] THEN <<"new_52w_low">>
                    ELSE IF 100 * (current_price - low_52w[1])
                               <= threshold_pct * low_52w[1]
                    THEN <<"near_52w_low">>
                    ELSE <<>>
         IN high \o low

\* SignalDetector.detect_52w_signals(current_price, high_52w, low_52w,
\* threshold_pct): the list of signal types, the high side first.  `if
\* high_52w:` is false for None and for 0; pct_from_high <= threshold_pct is
\* compared without the division, prices being in cents.
Detect52wSignals(current_price, high_52w, low_52w, threshold_pct) ==
    LET high == IF high_52w = None \/ high_52w = Some(0) THEN <<>>
                ELSE IF current_price >= high_52w[1] THEN <<"new_52w_high">>
                ELSE IF 100 * (high_52w[1] - current_price)
                           <= threshold_pct * high_52w[1]
                THEN <<"near_52w_high">>
                ELSE <<>>
        low == IF low_52w = None \/ low_52w = Some(0) THEN <<>>
               ELSE IF current_price <= low_52w[1] THEN <<"new_52w_low">>
               ELSE IF 100 * (current_price - low_52w[1])
                          <= threshold_pct * low_52w[1]
               THEN <<"near_52w_low">>
               ELSE <<>>
    IN high \o low

\* The prices, in cents, the 52-week detector is called with: the prices of
\* the examples (110, 97, 90, 82, 75) and the prices at and next to the
\* highs, the lows and the 5 % marks.
WeekPrices ==
    {7500, 8000, 8200, 8400, 8401, 9000, 9499, 9500, 9700, 9900, 10000,
     10001, 11000}

\* The 52-week highs and lows of a quote: absent, 0, those of the examples
\* and a pair less than 5 % apart.
WeekHighs == {None, Some(0), Some(10000)}
WeekLows == {None, Some(0), Some(8000), Some(9800)}

\* detect_52w_signals is called on its own, once in a behaviour.
Detect52wSignalsCalled(current_price, high_52w, low_52w, threshold_pct) ==
    /\ fname = "none"
    /\ fname' = "detect_52w_signals"
    /\ farg' = [current_price |-> current_price, high_52w |-> high_52w,
                 low_52w |-> low_52w, threshold_pct |-> threshold_pct]
    /\ fret' = Detect52wSignals(current_price, high_52w, low_52w,
                                threshold_pct)
    /\ UNCHANGED sigVars
    /\ UNCHANGED scrVars
    /\ UNCHANGED chVars
    /\ UNCHANGED opsVars

\* The <<period * MA, present>> of position i of a close series, for
\* IndicatorCalculator.moving_average(df["close"], period) unrounded: the sum
\* of the window ending at i, present from the period-th position on.
WindowSum(closes, period, i) ==
    IF i < period THEN None ELSE Some(SumRange(closes, i - period + 1, i))

\* A mutant of DetectMaCrossover: only the last pair of bars is looked at.
DetectMaCrossoverLastPair(ohlcv_list, ma_period, lookback) ==
    LET period == MaPeriodMap(ma_period) IN
    IF period = None \/ Len(ohlcv_list) < period[1] + lookback THEN None
    ELSE LET closes == CloseColumn(OhlcvToDataframe(ohlcv_list))
             n == Len(closes)
             p == period[1]
             Ma(i) == WindowSum(closes, p, i)
         IN IF Ma(n) = None \/ Ma(n - 1) = None THEN None
            ELSE IF p * closes[n - 1] < Ma(n - 1)[1] /\ p * closes[n] > Ma(n)[1]
            THEN Some("ma_crossover_bullish")
            ELSE IF p * closes[n - 1] > Ma(n - 1)[1] /\ p * closes[n] < Ma(n)[1]
            THEN Some("ma_crossover_bearish")
            ELSE None

\* A mutant of DetectMaCrossover: the pairs are scanned newest to oldest,
\* so that the latest crossover of the window is reported.
DetectMaCrossoverNewestFirst(ohlcv_list, ma_period, lookback) ==
    LET period == MaPeriodMap(ma_period) IN
    IF period = None \/ Len(ohlcv_list) < period[1] + lookback THEN None
    ELSE LET closes == CloseColumn(OhlcvToDataframe(ohlcv_list))
             n == Len(closes)
             p == period[1]
             Ma(i) == WindowSum(closes, p, i)
             Bullish(i) == /\ Ma(i - 1) # None /\ Ma(i) # None
                           /\ p * closes[i - 1] < Ma(i - 1)[1]
                           /\ p * closes[i] > Ma(i)[1]
             Bearish(i) == /\ Ma(i - 1) # None /\ Ma(i) # None
                           /\ p * closes[i - 1] > Ma(i - 1)[1]
                           /\ p * closes[i] < Ma(i)[1]
             hits == {i \in (n - lookback + 1)..n : Bullish(i) \/ Bearish(i)}
         IN IF Ma(n) = None \/ Ma(n - 1) = None THEN None
            ELSE IF hits = {} THEN None
            ELSE LET i == CHOOSE j \in hits : \A k \in hits : j >= k
                 IN IF Bullish(i) THEN Some("ma_crossover_bullish")
                    ELSE Some("ma_crossover_bearish")

\* SignalDetector.detect_ma_crossover(ohlcv_list, ma_period, lookback): the
\* type of the first crossover among the last `lookback` pairs of adjacent
\* bars, or None.  The closes are compared with the unrounded rolling mean:
\* close < ma is period * close < window sum.
DetectMaCrossover(ohlcv_list, ma_period, lookback) ==
    LET period == MaPeriodMap(ma_period) IN
    IF period = None \/ Len(ohlcv_list) < period[1] + lookback THEN None
    ELSE LET closes == CloseColumn(OhlcvToDataframe(ohlcv_list))
             n == Len(closes)
             p == period[1]
             Ma(i) == WindowSum(closes, p, i)
             Bullish(i) == /\ Ma(i - 1) # None /\ Ma(i) # None
                           /\ p * closes[i - 1] < Ma(i - 1)[1]
                           /\ p * closes[i] > Ma(i)[1]
             Bearish(i) == /\ Ma(i - 1) # None /\ Ma(i) # None
                           /\ p * closes[i - 1] > Ma(i - 1)[1]
                           /\ p * closes[i] < Ma(i)[1]
             hits == {i \in (n - lookback + 1)..n : Bullish(i) \/ Bearish(i)}
         IN IF Ma(n) = None \/ Ma(n - 1) = None THEN None
            ELSE IF hits = {} THEN None
            ELSE LET i == CHOOSE j \in hits : \A k \in hits : j <= k
                 IN IF Bullish(i) THEN Some("ma_crossover_bullish")
                    ELSE Some("ma_crossover_bearish")

\* The closes, in cents, of the last bars of the lists the crossover
\* detector is called with: at, below and above the level of the bars
\* before them.
TailCloses == {900, 1000, 1100}

\* The level, in cents, at which the bars before the last ones close.
BaseClose == 1000

\* The closes of a list: `flat` bars at the base level, then the tail.
FlatThen(flat, tail) == [i \in 1..flat |-> BaseClose] \o tail

\* detect_ma_crossover is called on its own with the default lookback, once
\* in a behaviour.
DetectMaCrossoverCalled(ohlcv_list, ma_period) ==
    /\ fname = "none"
    /\ fname' = "detect_ma_crossover"
    /\ farg' = [ohlcv_list |-> ohlcv_list, ma_period |-> ma_period,
                 lookback |-> 2]
    /\ fret' = DetectMaCrossover(ohlcv_list, ma_period, 2)
    /\ UNCHANGED sigVars
    /\ UNCHANGED scrVars
    /\ UNCHANGED chVars
    /\ UNCHANGED opsVars

\* detect_ma_crossover is called on its own with a lookback of its caller's
\* choice, once in a behaviour.
DetectMaCrossoverWithin(ohlcv_list, ma_period, lookback) ==
    /\ fname = "none"
    /\ fname' = "detect_ma_crossover"
    /\ farg' = [ohlcv_list |-> ohlcv_list, ma_period |-> ma_period,
                 lookback |-> lookback]
    /\ fret' = DetectMaCrossover(ohlcv_list, ma_period, lookback)
    /\ UNCHANGED sigVars
    /\ UNCHANGED scrVars
    /\ UNCHANGED chVars
    /\ UNCHANGED opsVars

\* The number of bars detect_macd_signal and detect_rsi_signal ask for.
MacdSignalBars == 35
RsiSignalBars == 15

\* A mutant of DetectMacdSignal: the position of the lines at the previous
\* bar is not looked at.
DetectMacdSignalCurrentOnly(ohlcv_list) ==
    IF Len(ohlcv_list) < MacdSignalBars THEN None
    ELSE LET m == Macd(CloseColumn(OhlcvToDataframe(ohlcv_list)),
                       MacdFast, MacdSlow, MacdSignal)
             n == Len(ohlcv_list)
         IN IF m.macd_line[n] > m.signal_line[n]
            THEN Some("macd_bullish_cross")
            ELSE IF m.macd_line[n] < m.signal_line[n]
            THEN Some("macd_bearish_cross")
            ELSE None

\* SignalDetector.detect_macd_signal(ohlcv_list): the lines of macd() have a
\* value at every position, so the isna test never returns.
DetectMacdSignal(ohlcv_list) ==
    IF Len(ohlcv_list) < MacdSignalBars THEN None
    ELSE LET m == Macd(CloseColumn(OhlcvToDataframe(ohlcv_list)),
                       MacdFast, MacdSlow, MacdSignal)
             n == Len(ohlcv_list)
             curr_macd == m.macd_line[n]
             prev_macd == m.macd_line[n - 1]
             curr_signal == m.signal_line[n]
             prev_signal == m.signal_line[n - 1]
         IN IF prev_macd < prev_signal /\ curr_macd > curr_signal
            THEN Some("macd_bullish_cross")
            ELSE IF prev_macd > prev_signal /\ curr_macd < curr_signal
            THEN Some("macd_bearish_cross")
            ELSE None

\* detect_macd_signal is called on its own, once in a behaviour.
DetectMacdSignalCalled(ohlcv_list) ==
    /\ fname = "none"
    /\ fname' = "detect_macd_signal"
    /\ farg' = [ohlcv_list |-> ohlcv_list]
    /\ fret' = DetectMacdSignal(ohlcv_list)
    /\ UNCHANGED sigVars
    /\ UNCHANGED scrVars
    /\ UNCHANGED chVars
    /\ UNCHANGED opsVars

\* rsi < k, rsi > k on the fraction <<numerator, denominator>> of RsiValue.
RsiUnder(value, k) == value[1] < k * value[2]
RsiOver(value, k) == value[1] > k * value[2]

\* A mutant of DetectRsiSignal: the level of the current RSI alone decides,
\* the previous bar is not looked at.
DetectRsiSignalLevel(ohlcv_list, oversold_threshold, overbought_threshold) ==
    IF Len(ohlcv_list) < RsiSignalBars THEN None
    ELSE LET rsi == RsiSeries(CloseColumn(OhlcvToDataframe(ohlcv_list)),
                              RsiPeriod)
             n == Len(ohlcv_list)
         IN IF rsi[n] = None THEN None
            ELSE IF RsiUnder(rsi[n][1], oversold_threshold)
            THEN Some("rsi_oversold")
            ELSE IF RsiOver(rsi[n][1], overbought_threshold)
            THEN Some("rsi_overbought")
            ELSE None

\* A mutant of DetectRsiSignal: the previous RSI is compared strictly, so
\* that an RSI exactly on a threshold at the previous bar does not cross.
DetectRsiSignalStrictPrevious(ohlcv_list, oversold_threshold, overbought_threshold) ==
    IF Len(ohlcv_list) < RsiSignalBars THEN None
    ELSE LET rsi == RsiSeries(CloseColumn(OhlcvToDataframe(ohlcv_list)),
                              RsiPeriod)
             n == Len(ohlcv_list)
         IN IF rsi[n] = None THEN None
            ELSE LET current_rsi == rsi[n][1]
                     prev_rsi == IF rsi[n - 1] # None THEN rsi[n - 1][1]
                                 ELSE current_rsi
                 IN IF RsiOver(prev_rsi, oversold_threshold)
                        /\ RsiUnder(current_rsi, oversold_threshold)
                    THEN Some("rsi_oversold")
                    ELSE IF RsiUnder(prev_rsi, overbought_threshold)
                        /\ RsiOver(current_rsi, overbought_threshold)
                    THEN Some("rsi_overbought")
                    ELSE None

\* SignalDetector.detect_rsi_signal(ohlcv_list, oversold_threshold,
\* overbought_threshold)
DetectRsiSignal(ohlcv_list, oversold_threshold, overbought_threshold) ==
    IF Len(ohlcv_list) < RsiSignalBars THEN None
    ELSE LET rsi == RsiSeries(CloseColumn(OhlcvToDataframe(ohlcv_list)),
                              RsiPeriod)
             n == Len(ohlcv_list)
         IN IF rsi[n] = None THEN None
            ELSE LET current_rsi == rsi[n][1]
                     prev_rsi == IF rsi[n - 1] # None THEN rsi[n - 1][1]
                                 ELSE current_rsi
                 IN IF ~RsiUnder(prev_rsi, oversold_threshold)
                        /\ RsiUnder(current_rsi, oversold_threshold)
                    THEN Some("rsi_oversold")
                    ELSE IF ~RsiOver(prev_rsi, overbought_threshold)
                        /\ RsiOver(current_rsi, overbought_threshold)
                    THEN Some("rsi_overbought")
                    ELSE None

\* The closes that follow the flat stretch of the bars given to
\* detect_rsi_signal: a rise of 0.30 and a fall of 0.70 from the level give
\* an RSI of exactly 30, and the mirror closes one of exactly 70.
RsiFalls == {900, 960, 1000, 1030}
RsiRises == {970, 1000, 1040, 1100}

\* detect_rsi_signal is called on its own with the default thresholds, once
\* in a behaviour.
DetectRsiSignalCalled(ohlcv_list) ==
    /\ fname = "none"
    /\ fname' = "detect_rsi_signal"
    /\ farg' = [ohlcv_list |-> ohlcv_list, oversold_threshold |-> 30,
                 overbought_threshold |-> 70]
    /\ fret' = DetectRsiSignal(ohlcv_list, 30, 70)
    /\ UNCHANGED sigVars
    /\ UNCHANGED scrVars
    /\ UNCHANGED chVars
    /\ UNCHANGED opsVars

\* IndicatorCalculator.calculate_all_indicators is called on its own, once
\* in a behaviour; the result is the map from the name of each field of
\* IndicatorData that is set to its payload.
CalculateAllIndicatorsCalled(ohlcv_list, include_ma, include_rsi, include_macd) ==
    /\ fname = "none"
    /\ fname' = "calculate_all_indicators"
    /\ farg' = [ohlcv_list |-> ohlcv_list, include_ma |-> include_ma,
                 include_rsi |-> include_rsi, include_macd |-> include_macd]
    /\ fret' = CalculateAllIndicators(ohlcv_list, include_ma, include_rsi,
                                      include_macd)
    /\ UNCHANGED sigVars
    /\ UNCHANGED scrVars
    /\ UNCHANGED chVars
    /\ UNCHANGED opsVars

(***************************************************************************)
(* Part XI.  The fan-out of a detection sweep: slots and sessions          *)
(*                                                                         *)
(* detect_all_signals seen for its semaphore and for the storage sessions  *)
(* it and its tasks open.  A session is known by who opened it: 0 is the   *)
(* run itself (the session it reads the universe through), i is task i.    *)
(***************************************************************************)

\* asyncio.Semaphore(5) of detect_all_signals.
SweepConcurrency == 5

\* The universe of the sweep: one stock more than there are slots.
SweepUniverse ==
    [i \in 1..(SweepConcurrency + 1) |->
        [symbol |-> <<83, 64 + i>>, name |-> <<83, 64 + i>>,
         sector |-> "Energy"]]

\* async with AsyncSessionLocal() as db, entered by `who`: the session `id`
\* is open.
SessionOpened(store, id, who) ==
    [k \in DOMAIN store \cup {id} |->
        IF k = id
        THEN [open |-> TRUE,
              openers |-> (IF id \in DOMAIN store THEN store[id].openers
                           ELSE {}) \cup {who},
              users |-> IF id \in DOMAIN store THEN store[id].users ELSE {}]
        ELSE store[k]]

\* A statement of `who` is executed through session `id`.
SessionUsed(store, id, who) ==
    [store EXCEPT ![id].users = @ \cup {who}]

\* The async with block of session `id` is left.
SessionClosed(store, id) == [store EXCEPT ![id].open = FALSE]

\* A mutant of SessionOfTask: the tasks write through the session of the
\* run.
SessionOfSweep(i) == 0

\* The session task i writes through: the one detect_signals_for_stock
\* opens itself.
SessionOfTask(i) == i

\* A mutant of SweepCanAcquire: a task never waits for a slot.
SweepCanAcquireAlways(value) == TRUE

\* The semaphore of the sweep lets a task in without waiting when its value
\* is positive.
SweepCanAcquire(value) == value > 0

\* A process_stock task that ran up to its first await: in a slot and
\* awaiting the provider, or waiting for a slot.
NewStockTask(stock, holds) ==
    [symbol |-> stock.symbol, pc |-> IF holds THEN "fetch" ELSE "wait",
     left |-> 0, outcome |-> "running"]

\* Number of tasks of the sweep that are in a slot.
StocksInFlight(ts) ==
    Cardinality({i \in 1..Len(ts) : ts[i].pc \in {"fetch", "save"}})

\* detect_all_signals starts: it opens a session and awaits get_universe.
SweepBegin ==
    /\ dpc = "idle"
    /\ dpc' = "universe"
    /\ sessions' = SessionUsed(SessionOpened(sessions, 0, 0), 0, 0)
    /\ UNCHANGED <<ucalls, removed, sweep, dtasks, dsem>>
    /\ UNCHANGED sigVars
    /\ UNCHANGED scrVars
    /\ UNCHANGED chVars
    /\ UNCHANGED fnVars

\* get_universe returns `list` and the session is left; an empty universe
\* ends the run, otherwise the tasks are created and gather runs each up to
\* its first await, in list order.
SweepGather(list) ==
    /\ dpc = "universe"
    /\ sessions' = SessionClosed(sessions, 0)
    /\ IF list = <<>>
       THEN /\ dpc' = "done"
            /\ UNCHANGED <<dtasks, dsem>>
       ELSE /\ dpc' = "gather"
            /\ dtasks' = [i \in 1..Len(list) |->
                    NewStockTask(list[i],
                                 SweepCanAcquire(SweepConcurrency - (i - 1)))]
            /\ dsem' = SweepConcurrency - StocksInFlight(dtasks')
    /\ UNCHANGED <<ucalls, removed, sweep>>
    /\ UNCHANGED sigVars
    /\ UNCHANGED scrVars
    /\ UNCHANGED chVars
    /\ UNCHANGED fnVars

\* Task i, the longest waiting one, is woken and enters the semaphore.
StockAcquire(i) ==
    /\ dpc = "gather"
    /\ i \in 1..Len(dtasks)
    /\ dtasks[i].pc = "wait"
    /\ \A j \in 1..(i - 1) : dtasks[j].pc # "wait"
    /\ SweepCanAcquire(dsem)
    /\ dsem' = dsem - 1
    /\ dtasks' = [dtasks EXCEPT ![i].pc = "fetch"]
    /\ UNCHANGED <<ucalls, removed, sweep, dpc, sessions>>
    /\ UNCHANGED sigVars
    /\ UNCHANGED scrVars
    /\ UNCHANGED chVars
    /\ UNCHANGED fnVars

\* detect_signals_for_stock of task i up to its return or to its first
\* save_signal call: no bars or no signals ("quiet") and an exception
\* ("raised") return and leave the slot; with `count` signals the task opens
\* its session and calls save_signal for the first.
StockDetect(i, outcome, count) ==
    /\ dpc = "gather"
    /\ i \in 1..Len(dtasks)
    /\ dtasks[i].pc = "fetch"
    /\ IF outcome = "signals"
       THEN /\ dtasks' = [dtasks EXCEPT ![i].pc = "save", ![i].left = count]
            /\ sessions' = SessionOpened(sessions, SessionOfTask(i), i)
            /\ UNCHANGED dsem
       ELSE /\ dtasks' = [dtasks EXCEPT ![i].pc = "done",
                                        ![i].outcome = outcome]
            /\ dsem' = dsem + 1
            /\ UNCHANGED sessions
    /\ UNCHANGED <<ucalls, removed, sweep, dpc>>
    /\ UNCHANGED sigVars
    /\ UNCHANGED scrVars
    /\ UNCHANGED chVars
    /\ UNCHANGED fnVars

\* A save_signal call of task i returns, or raises when the storage fails:
\* after the last signal, and on an exception, the session is left, the
\* task returns and leaves the slot.
StockSave(i, ok) ==
    /\ dpc = "gather"
    /\ i \in 1..Len(dtasks)
    /\ dtasks[i].pc = "save"
    /\ IF ok /\ dtasks[i].left > 1
       THEN /\ dtasks' = [dtasks EXCEPT ![i].left = @ - 1]
            /\ sessions' = SessionUsed(sessions, SessionOfTask(i), i)
            /\ UNCHANGED dsem
       ELSE /\ dtasks' = [dtasks EXCEPT ![i].pc = "done", ![i].left = 0,
                              ![i].outcome = IF ok THEN "saved" ELSE "raised"]
            /\ sessions' = SessionClosed(
                    SessionUsed(sessions, SessionOfTask(i), i),
                    SessionOfTask(i))
            /\ dsem' = dsem + 1
    /\ UNCHANGED <<ucalls, removed, sweep, dpc>>
    /\ UNCHANGED sigVars
    /\ UNCHANGED scrVars
    /\ UNCHANGED chVars
    /\ UNCHANGED fnVars

\* gather returns when every task has, and the run sums up and ends.
SweepEnd ==
    /\ dpc = "gather"
    /\ \A i \in 1..Len(dtasks) : dtasks[i].pc = "done"
    /\ dpc' = "done"
    /\ UNCHANGED <<ucalls, removed, sweep, dtasks, dsem, sessions>>
    /\ UNCHANGED sigVars
    /\ UNCHANGED scrVars
    /\ UNCHANGED chVars
    /\ UNCHANGED fnVars

(***************************************************************************)
(* Part XII.  Cache TTLs and market hours                                  *)
(*                                                                         *)
(* A local Eastern datetime is [weekday, minute, late]: weekday 0 is       *)
(* Monday, minute is the minute of the day and `late` tells whether the    *)
(* time lies after the start of that minute.                               *)
(***************************************************************************)

\* Settings(): the cache TTLs in seconds and the off-hours multiplier, with
\* their defaults.
DefaultSettings ==
    [cache_ttl_quote |-> 300, cache_ttl_ohlcv_daily |-> 3600,
     cache_ttl_ohlcv_weekly |-> 86400, cache_ttl_indicators |-> 300,
     cache_ttl_screener |-> 300, cache_ttl_universe |-> 86400,
     cache_ttl_off_hours_multiplier |-> 12]

\* Settings read from an environment that sets every one of them.
ConfiguredSettings ==
    [cache_ttl_quote |-> 60, cache_ttl_ohlcv_daily |-> 600,
     cache_ttl_ohlcv_weekly |-> 7200, cache_ttl_indicators |-> 120,
     cache_ttl_screener |-> 30, cache_ttl_universe |-> 1800,
     cache_ttl_off_hours_multiplier |-> 2]

\* MARKET_OPEN = time(9, 30) and MARKET_CLOSE = time(16, 0), as minutes of
\* the day.
MarketOpen == 570
MarketClose == 960

\* is_trading_day(dt): dt.weekday() in TRADING_DAYS.
IsTradingDay(dt) == dt.weekday \in {0, 1, 2, 3, 4}

\* A mutant of IsMarketHours: the close itself is outside the hours.
IsMarketHoursBeforeClose(dt) ==
    IF ~IsTradingDay(dt) THEN FALSE
    ELSE dt.minute >= MarketOpen /\ dt.minute < MarketClose

\* A mutant of IsMarketHours: the day of the week is not looked at.
IsMarketHoursAnyDay(dt) ==
    /\ dt.minute >= MarketOpen
    /\ dt.minute < MarketClose \/ (dt.minute = MarketClose /\ ~dt.late)

\* is_market_hours(dt): MARKET_OPEN <= dt.time() <= MARKET_CLOSE on a
\* trading day; a time after 16:00:00.000000 is past the close.
IsMarketHours(dt) ==
    IF ~IsTradingDay(dt) THEN FALSE
    ELSE /\ dt.minute >= MarketOpen
         /\ dt.minute < MarketClose \/ (dt.minute = MarketClose /\ ~dt.late)

\* CacheTTL._get_multiplier() at the Eastern time dt.
GetMultiplier(settings, dt) ==
    IF IsMarketHours(dt) THEN 1 ELSE settings.cache_ttl_off_hours_multiplier

\* A mutant of CacheTtl: the daily bars follow the market hours as the
\* quotes do.
CacheTtlDailyFollows(method, settings, dt) ==
    CASE method = "quote" ->
            settings.cache_ttl_quote * GetMultiplier(settings, dt)
      [] method = "ohlcv_daily" ->
            settings.cache_ttl_ohlcv_daily * GetMultiplier(settings, dt)
      [] method = "ohlcv_weekly" -> settings.cache_ttl_ohlcv_weekly
      [] method = "indicators" ->
            settings.cache_ttl_indicators * GetMultiplier(settings, dt)
      [] method = "screener" ->
            settings.cache_ttl_screener * GetMultiplier(settings, dt)
      [] method = "universe" -> settings.cache_ttl_universe
      [] method = "stock_info" -> 86400
      [] method = "search" -> 3600

\* CacheTTL.<method>() at the Eastern time dt.
CacheTtl(method, settings, dt) ==
    CASE method = "quote" ->
            settings.cache_ttl_quote * GetMultiplier(settings, dt)
      [] method = "ohlcv_daily" -> settings.cache_ttl_ohlcv_daily
      [] method = "ohlcv_weekly" -> settings.cache_ttl_ohlcv_weekly
      [] method = "indicators" ->
            settings.cache_ttl_indicators * GetMultiplier(settings, dt)
      [] method = "screener" ->
            settings.cache_ttl_screener * GetMultiplier(settings, dt)
      [] method = "universe" -> settings.cache_ttl_universe
      [] method = "stock_info" -> 86400
      [] method = "search" -> 3600

\* The minutes of the day explored: midnight, around the open, midday,
\* around the close and the last minute.
TtlMinutes ==
    {0, MarketOpen - 1, MarketOpen, MarketOpen + 1, 12 * 60, MarketClose - 1,
     MarketClose, MarketClose + 1, 24 * 60 - 1}

\* A method of CacheTTL is called on its own at the Eastern time dt, once
\* in a behaviour.
CacheTtlCalled(method, settings, dt) ==
    /\ fname = "none"
    /\ fname' = "cache_ttl"
    /\ farg' = [method |-> method, settings |-> settings, dt |-> dt]
    /\ fret' = CacheTtl(method, settings, dt)
    /\ UNCHANGED sigVars
    /\ UNCHANGED scrVars
    /\ UNCHANGED chVars
    /\ UNCHANGED opsVars

vars == <<sigVars, scrVars, chVars, opsVars, fnVars>>

\* A screen() call arrives: GET /screener with validated query parameters.
ScreenCall(req) ==
    /\ spc \in {"idle", "returned"}
    /\ runs < MaxRuns
    /\ runs' = runs + 1
    /\ request' = req
    /\ spc' = "cacheget"
    /\ tasks' = <<>>
    /\ sem' = 0
    /\ response' = None
    /\ UNCHANGED <<universe, market, cache, cacheUp, pending, history, pfaults>>
    /\ UNCHANGED sigVars
    /\ UNCHANGED chVars
    /\ UNCHANGED fnVars
    /\ UNCHANGED opsVars

\* The provider's data changes between two calls.
MarketChange ==
    /\ spc = "returned"
    /\ runs < MaxRuns
    /\ \E s \in {DefaultUniverse[1].symbol} :
        \E held \in HeldFor(s) \ {market[s]} :
            market' = [market EXCEPT ![s] = held]
    /\ UNCHANGED <<universe, cache, cacheUp, spc, request, tasks, sem, pending,
                   response, history, runs, pfaults>>
    /\ UNCHANGED sigVars
    /\ UNCHANGED chVars
    /\ UNCHANGED fnVars
    /\ UNCHANGED opsVars

\* The store drops a key whose TTL (setex) ran out.
CacheExpire(key) ==
    /\ spc = "returned"
    /\ runs < MaxRuns
    /\ cacheUp
    /\ key \in DOMAIN cache
    /\ cache' = CacheDelete(cache, cacheUp, key)
    /\ UNCHANGED <<universe, market, cacheUp, spc, request, tasks, sem, pending,
                   response, history, runs, pfaults>>
    /\ UNCHANGED sigVars
    /\ UNCHANGED chVars
    /\ UNCHANGED fnVars
    /\ UNCHANGED opsVars

\* refresh_market_data: cache_service.delete_pattern("argus:screener:*").
RefreshInvalidate ==
    /\ spc = "returned"
    /\ cacheUp
    /\ \E k \in DOMAIN cache : k[2] = "screener"
    /\ cache' = [k \in {q \in DOMAIN cache : q[2] # "screener"} |-> cache[k]]
    /\ UNCHANGED <<universe, market, cacheUp, spc, request, tasks, sem, pending,
                   response, history, runs, pfaults>>
    /\ UNCHANGED sigVars
    /\ UNCHANGED chVars
    /\ UNCHANGED fnVars
    /\ UNCHANGED opsVars

\* The provider holds the same for every stock.
QuietMarket(list) ==
    [s \in Symbols(list) |->
        Held(Series(150, 10000, 9970), Some(QuoteOf(-30, 120, None)))]

\* The signal store's specifications leave the screener idle.
SigScreenInit ==
    /\ SigInit
    /\ ChIdle
    /\ OpsIdle
    /\ FnIdle
    /\ ScrIdle
    /\ universe = TableOf(DefaultUniverse, {})
    /\ market = QuietMarket(DefaultUniverse)

\* One screen() call on an empty cache: any of the requests, any holdings of
\* the provider, and a table that is full, has a removed stock, or is empty.
ScreenInit ==
    /\ SigInit
    /\ ChIdle
    /\ OpsIdle
    /\ FnIdle
    /\ universe \in {TableOf(DefaultUniverse, {}), TableOf(DefaultUniverse, {2}),
                     <<>>}
    /\ market \in Markets(DefaultUniverse)
    /\ cache = <<>>
    /\ cacheUp = TRUE
    /\ spc = "cacheget"
    /\ request \in Requests
    /\ tasks = <<>>
    /\ sem = 0
    /\ pending = None
    /\ response = None
    /\ history = <<>>
    /\ runs = 1
    /\ pfaults = 0

\* With at most ScreenConcurrency stocks no task waits for the semaphore.
ScreenNext ==
    \/ ScreenCacheGet
    \/ ScreenGather
    \/ \E i \in 1..Len(tasks) : TaskBars(i)
    \/ \E i \in 1..Len(tasks) : TaskQuote(i)
    \/ ScreenCompute
    \/ ScreenReturn

SpecScreen == ScreenInit /\ [][ScreenNext]_vars

\* A universe of more stocks than the semaphore admits: "S" followed by a
\* letter each; the first stock and the first to wait have enough bars.
ConcUniverse ==
    [i \in 1..ConcUniverseSize |->
        [symbol |-> <<83, 64 + i>>, name |-> <<83, 64 + i>>, sector |-> "Energy"]]

ConcMarket ==
    [s \in Symbols(ConcUniverse) |->
        IF s[2] \in {65, 75}
        THEN Held(Series(150, 10000, 9970 + s[2]), Some(QuoteOf(-30, 120, None)))
        ELSE Held(Series(60, 10000, 9970), Some(QuoteOf(-30, 120, None)))]

ConcInit ==
    /\ SigInit
    /\ ChIdle
    /\ OpsIdle
    /\ FnIdle
    /\ universe = TableOf(ConcUniverse, {})
    /\ market = ConcMarket
    /\ cache = <<>>
    /\ cacheUp = TRUE
    /\ spc = "cacheget"
    /\ request = DefaultRequest
    /\ tasks = <<>>
    /\ sem = 0
    /\ pending = None
    /\ response = None
    /\ history = <<>>
    /\ runs = 1
    /\ pfaults = 0

ConcNext ==
    \/ ScreenCacheGet
    \/ ScreenGather
    \/ \E i \in 1..Len(tasks) : TaskAcquire(i)
    \/ \E i \in 1..Len(tasks) : TaskBars(i)
    \/ \E i \in 1..Len(tasks) : TaskQuote(i)
    \/ ScreenCompute
    \/ ScreenReturn

SpecScreenConc == ConcInit /\ [][ConcNext]_vars

\* Task i of the fan-out awaits a provider call: TaskBars(i) or TaskQuote(i)
\* can be taken, with the call's answer or with its timeout.
AwaitsProvider(i) ==
    spc = "gather" /\ i \in DOMAIN tasks /\ tasks[i].pc \in {"bars", "quote"}

\* The same call when the event loop runs every step that is ready and every
\* provider call returns or hits its timeout.  A step of screen and the
\* wake-up of a waiting task are taken when they stay possible.  TaskBars(i)
\* and TaskQuote(i) are possible exactly while task i awaits its provider
\* call and end that await, so their weak fairness is that task i is again
\* and again not awaiting a provider call.
ConcFairness ==
    /\ WF_vars(ScreenCacheGet)
    /\ WF_vars(ScreenGather)
    /\ \A i \in 1..(ScreenConcurrency + 1) : WF_vars(TaskAcquire(i))
    /\ \A i \in 1..(ScreenConcurrency + 1) : []<>~AwaitsProvider(i)
    /\ WF_vars(ScreenCompute)
    /\ WF_vars(ScreenReturn)

\* One stock more than the semaphore admits, so that one task waits for a
\* slot; of the provider faults that the model allows one is left, so that
\* one call of the run can time out or raise.
ConcFairInit ==
    /\ SigInit
    /\ ChIdle
    /\ OpsIdle
    /\ FnIdle
    /\ universe = TableOf(SubSeq(ConcUniverse, 1, ScreenConcurrency + 1), {})
    /\ market = ConcMarket
    /\ cache = <<>>
    /\ cacheUp = TRUE
    /\ spc = "cacheget"
    /\ request = DefaultRequest
    /\ tasks = <<>>
    /\ sem = 0
    /\ pending = None
    /\ response = None
    /\ history = <<>>
    /\ runs = 1
    /\ pfaults = MaxFaults - 1

SpecScreenConcFair == ConcFairInit /\ [][ConcNext]_vars /\ ConcFairness

\* The requests of the repeated calls.
CacheRequests ==
    {Request("20W", 50, TRUE, FALSE, "distance", "asc", 100, 0),
     Request("20W", 10000, FALSE, TRUE, "symbol", "desc", 1, 1)}

CacheInit ==
    /\ SigInit
    /\ ChIdle
    /\ OpsIdle
    /\ FnIdle
    /\ ScrIdle
    /\ universe = TableOf(DefaultUniverse, {3})
    /\ market \in {m \in Markets(DefaultUniverse) :
                     /\ m[DefaultUniverse[1].symbol].series.last \in {9970, 10051}
                     /\ m[DefaultUniverse[1].symbol].series.n = 150
                     /\ m[DefaultUniverse[2].symbol].series.last # 0
                     /\ m[DefaultUniverse[3].symbol].series.n = 0}

\* Calls one after another, the clock, the provider's data and the cache
\* store changing in between.  A call reads the clock once, so the clock is
\* let advance between calls only, one step after a call at most.
CacheNext ==
    \/ \E req \in CacheRequests : ScreenCall(req)
    \/ spc = "returned" /\ runs < MaxRuns /\ history[Len(history)].at = now /\ Tick
    \/ MarketChange
    \/ \E key \in DOMAIN cache : CacheExpire(key)
    \/ RefreshInvalidate
    \/ CacheDown
    \/ ScreenCacheGet
    \/ ScreenGather
    \/ \E i \in 1..Len(tasks) : TaskBars(i)
    \/ \E i \in 1..Len(tasks) : TaskQuote(i)
    \/ ScreenCompute
    \/ ScreenReturn

SpecScreenCache == CacheInit /\ [][CacheNext]_vars

\* Entries left in a store that stopped answering: a page of no rows with a
\* total of 7 under the key of `req`, and a universe of the last default
\* stock only.
StaleEntries(req) ==
    [k \in {ScreenerKey(req), UniverseKey} |->
        IF k = UniverseKey THEN <<DefaultUniverse[3]>>
        ELSE [results |-> <<>>, total |-> 7, timestamp |-> IsoFormat(0)]]

\* One screen() call while the cache store does not answer (CacheService
\* without a connection, or every Redis command raising), the store empty or
\* holding entries from before.
DownInit ==
    /\ SigInit
    /\ ChIdle
    /\ OpsIdle
    /\ FnIdle
    /\ universe \in {TableOf(DefaultUniverse, {}), <<>>}
    /\ market \in Markets(DefaultUniverse)
    /\ request \in CacheRequests \cup {DefaultRequest}
    /\ cache \in {<<>>, StaleEntries(request)}
    /\ cacheUp = FALSE
    /\ spc = "cacheget"
    /\ tasks = <<>>
    /\ sem = 0
    /\ pending = None
    /\ response = None
    /\ history = <<>>
    /\ runs = 1
    /\ pfaults = 0

SpecScreenDown == DownInit /\ [][ScreenNext]_vars


\* save_signal calls applied one after another.
SeqNext ==
    \/ Tick
    \/ \E t \in SaveTasks : Alone(t) /\ DetectBatch(t)
    \/ \E t \in SaveTasks : Alone(t) /\ SaveExecute(t)
    \/ \E t \in SaveTasks : Alone(t) /\ SaveCommit(t)
    \/ \E t \in SaveTasks : Alone(t) /\ StorageError(t)

\* save_signal calls of overlapping sweeps and of different symbols' tasks.
SigNext ==
    \/ Tick
    \/ \E t \in SaveTasks : DetectBatch(t)
    \/ \E t \in SaveTasks : SaveExecute(t)
    \/ \E t \in SaveTasks : SaveCommit(t)
    \/ \E t \in SaveTasks : StorageError(t)

SpecSaveSeq == SigScreenInit /\ [][SeqNext]_vars

\* Task t is inside the save loop of detect_signals_for_stock.
InSaveLoop(t) == stask[t].pc \in {"execute", "commit"}

\* Hours since the save_signal call that task t is in read the clock.
CallElapsed(t) == now - (stask[t].since + DedupeHours)

\* The sweeps' save loops one after another, none of their save_signal
\* calls lasting a day: the clock advances at most one step inside a call.
BatchNext ==
    \/ (\A t \in SaveTasks : InSaveLoop(t) => CallElapsed(t) = 0) /\ Tick
    \/ \E t \in SaveTasks : Alone(t) /\ DetectBatch(t)
    \/ \E t \in SaveTasks : Alone(t) /\ SaveExecute(t)
    \/ \E t \in SaveTasks : Alone(t) /\ SaveCommit(t)
    \/ \E t \in SaveTasks : Alone(t) /\ StorageError(t)

SpecBatch == SigScreenInit /\ [][BatchNext]_vars

SpecSignals == SigScreenInit /\ [][SigNext]_vars

\* The chart calls of one server: calls arrive one after another, the
\* provider may fail each fetch, and the cache store may stop answering.
ChartInit ==
    /\ SigInit
    /\ ChIdle
    /\ OpsIdle
    /\ FnIdle
    /\ ScrIdle
    /\ universe = TableOf(DefaultUniverse, {})
    /\ market = QuietMarket(DefaultUniverse)

ChartNext ==
    \/ /\ cpc \in {"idle", "done"}
       /\ \E req \in ChartRequests, n \in ChartHistoryLengths :
             ChartCall(req, History(n))
    \/ ChartCacheGet
    \/ \E fault \in {"none", "timeout", "error"} : ChartFetch(fault)
    \/ ChartBuild
    \/ ChartStore
    \/ CacheDown

SpecChart == ChartInit /\ [][ChartNext]_vars

\* Calls of the universe manager on the full default table and an empty
\* cache, interleaved at their awaits.
UniverseInit ==
    /\ SigInit
    /\ ChIdle
    /\ OpsIdle
    /\ FnIdle
    /\ ScrIdle
    /\ universe = TableOf(DefaultUniverse, {})
    /\ market = QuietMarket(DefaultUniverse)

UniverseNext ==
    \/ \E c \in UniverseCalls, o \in UniverseOps : UniCallStart(c, o[1], o[2])
    \/ \E c \in UniverseCalls : UniGetCache(c)
    \/ \E c \in UniverseCalls : UniGetSelect(c)
    \/ \E c \in UniverseCalls : UniGetSet(c)
    \/ \E c \in UniverseCalls : UniRemoveSelect(c)
    \/ \E c \in UniverseCalls : UniCommit(c)
    \/ \E c \in UniverseCalls : UniDelete(c)

SpecUniverse == UniverseInit /\ [][UniverseNext]_vars

\* One sweep of each job at one time of day: every task ends without a
\* save, or saves its batch, and each sweep sums up its tasks' results.
SweepNext ==
    \/ \E t \in SaveTasks : DetectBatch(t)
    \/ \E t \in SaveTasks, o \in QuietOutcomes : DetectEnd(t, o)
    \/ \E t \in SaveTasks : SaveExecute(t)
    \/ \E t \in SaveTasks : SaveCommit(t)
    \/ \E t \in SaveTasks : StorageError(t)
    \/ \E j \in Jobs : SweepSum(j)

SpecSweep == SigScreenInit /\ [][SweepNext]_vars

\* One detect_all_signals run over an empty universe or over one stock more
\* than the semaphore admits.
FanoutNext ==
    \/ SweepBegin
    \/ \E list \in {<<>>, SweepUniverse} : SweepGather(list)
    \/ \E i \in 1..Len(dtasks) : StockAcquire(i)
    \/ \E i \in 1..Len(dtasks), outcome \in {"quiet", "raised"} :
          StockDetect(i, outcome, 0)
    \/ \E i \in 1..Len(dtasks), count \in {Len(b) : b \in Batches} :
          StockDetect(i, "signals", count)
    \/ \E i \in 1..Len(dtasks), ok \in BOOLEAN : StockSave(i, ok)
    \/ SweepEnd

SpecFanout == SigScreenInit /\ [][FanoutNext]_vars

\* Every method of CacheTTL at every day of the week and at the minutes
\* explored, on the minute and after it, under the default and under
\* configured settings.
TtlNext ==
    \E method \in CacheTTLMethods,
       settings \in {DefaultSettings, ConfiguredSettings},
       weekday \in 0..6, minute \in TtlMinutes, late \in BOOLEAN :
       CacheTtlCalled(method, settings,
                      [weekday |-> weekday, minute |-> minute, late |-> late])

SpecTtl == SigScreenInit /\ [][TtlNext]_vars

\* One screening run and, after it, one sweep of each job: the two places
\* that ask the provider for a symbol's bars and quote.
RunsInit ==
    /\ SigInit
    /\ ChIdle
    /\ OpsIdle
    /\ FnIdle
    /\ universe = TableOf(DefaultUniverse, {})
    /\ market = QuietMarket(DefaultUniverse)
    /\ cache = <<>>
    /\ cacheUp = TRUE
    /\ spc = "cacheget"
    /\ request = DefaultRequest
    /\ tasks = <<>>
    /\ sem = 0
    /\ pending = None
    /\ response = None
    /\ history = <<>>
    /\ runs = 1
    /\ pfaults = 0

RunsNext ==
    \/ ScreenNext
    \/ spc = "returned" /\ SweepNext

SpecRuns == RunsInit /\ [][RunsNext]_vars

\* The three fetch methods of the market data service, each called on its
\* own against a provider that answers, is slow, or raises.
MarketNext ==
    \/ \E d \in Durations, i \in TickerInfos, e \in ProviderErrors :
          GetQuoteCalled(d, i, e)
    \/ \E d \in Durations, n \in ServiceHistoryLengths, e \in ProviderErrors :
          GetOhlcvCalled(d, History(n), e)
    \/ \E d \in Durations, n \in ServiceHistoryLengths, e \in ProviderErrors,
          p \in {"20W", "200W"} :
          GetOhlcvForIndicatorsCalled(d, History(n), p, e)

SpecMarket == SigScreenInit /\ [][MarketNext]_vars

\* _resample_to_weekly on every ascending bar list over the days explored,
\* and _resample_indicator_payload on the payloads and weekly bars made of
\* the payload days; the inputs are enumerated only while no call has been
\* made.
ResampleNext ==
    \/ /\ FnIdle
       /\ \E days \in SUBSET ResampleDays :
             ResampleToWeeklyCalled(BarsOn(days))
    \/ /\ FnIdle
       /\ \E days \in SUBSET PayloadDays, weeks \in SUBSET PayloadDays,
             empty \in BOOLEAN :
             ResampleIndicatorPayloadCalled(
                 PayloadOf(SeriesOn(days),
                           IF empty THEN <<>> ELSE SeriesOn(days)),
                 ResampleToWeekly(BarsOn(weeks)))

SpecResample == SigScreenInit /\ [][ResampleNext]_vars

\* The three calculate_*_result functions on lists of closes and on
\* provider histories; the many inputs are enumerated only while no call
\* has been made.
IndicatorsNext ==
    \/ /\ FnIdle
       /\ \E n \in 0..MaxCloses, period \in TestPeriods :
             \E closes \in CloseLists(n) :
                 CalculateMaResultCalled(BarsClosing(closes), period)
    \/ \E n \in IndicatorHistoryLengths, period \in {20, 100} :
          CalculateMaResultCalled(History(n), period)
    \/ \E n \in 1..3, period \in {1, 2} :
          \E closes \in [1..n -> {0, 1000, 1010}] :
              CalculateMaResultCalled(BarsClosing(closes), period)
    \/ \E n \in IndicatorHistoryLengths : CalculateRsiResultCalled(History(n))
    \/ \E n \in IndicatorHistoryLengths : CalculateMacdResultCalled(History(n))
    \/ \E n \in IndicatorHistoryLengths \cup {250},
          include_ma \in BOOLEAN, include_rsi \in BOOLEAN,
          include_macd \in BOOLEAN :
          CalculateAllIndicatorsCalled(History(n), include_ma, include_rsi,
                                       include_macd)
    \/ /\ FnIdle
       /\ \E n \in 0..MaxRsiCloses, period \in {2, 3} :
             \E prices \in [1..n -> RsiCloses] : RsiCalled(prices, period)
    \/ \E n \in IndicatorHistoryLengths :
          RsiCalled(CloseColumn(History(n)), RsiPeriod)
    \/ /\ FnIdle
       /\ \E n \in 0..MaxRsiCloses :
             \E prices \in [1..n -> RsiCloses] : MacdCalled(prices, 2, 3, 2)
    \/ \E n \in IndicatorHistoryLengths :
          MacdCalled(CloseColumn(History(n)), MacdFast, MacdSlow, MacdSignal)

SpecIndicators == SigScreenInit /\ [][IndicatorsNext]_vars

\* The signal detectors on prices around their thresholds and on bar lists.
DetectNext ==
    \/ \E p \in WeekPrices, h \in WeekHighs, l \in WeekLows, t \in {5, 10} :
          Detect52wSignalsCalled(p, h, l, t)
    \/ \E flat \in {98, 99, 120}, tail \in [1..3 -> TailCloses],
          ma_period \in {"20W", "50W", "30W"} :
          DetectMaCrossoverCalled(BarsClosing(FlatThen(flat, tail)), ma_period)
    \/ \E flat \in {98, 99, 120}, tail \in [1..4 -> TailCloses] :
          DetectMaCrossoverWithin(BarsClosing(FlatThen(flat, tail)), "20W", 3)
    \/ \E flat \in {30, 31, 32, 40}, tail \in [1..4 -> TailCloses] :
          DetectMacdSignalCalled(BarsClosing(FlatThen(flat, tail)))
    \/ /\ FnIdle
       /\ \E flat \in {10, 11, 12} :
             \E tail \in [1..4 -> RsiFalls] \cup [1..4 -> RsiRises] :
                 DetectRsiSignalCalled(BarsClosing(FlatThen(flat, tail)))

SpecDetect == SigScreenInit /\ [][DetectNext]_vars

(***************************************************************************)
(* Claims about the signal store                                           *)
(***************************************************************************)

\* A save_signal call of task t returns (an accepted Signal or None) in this step.
CallReturns(t) ==
    /\ stask[t].pc \in {"execute", "commit"}
    /\ \/ stask'[t].pc = "done"
       \/ stask'[t].pc = "execute" /\ stask'[t].idx = stask[t].idx + 1

\* The number of signals task t has saved, after this step.
SavedAfter(t) ==
    IF stask'[t].pc = "done" THEN stask'[t].ret[1][2] ELSE stask'[t].saved

\* C1: when save_signal calls are applied one after another with the window
\* DedupeHours, a call for (symbol, type) that returns is accepted if and only
\* if the store holds no row of that pair with timestamp >= since, where since
\* is the call's clock reading minus the window; an accepted call adds exactly
\* its row, stamped between the call's start and its return, and a call that
\* is not accepted leaves the store unchanged.
C1_SequentialDedupe ==
    [][\A t \in SaveTasks :
        CallReturns(t) =>
            LET s == stask[t]
                dup == \E r \in BagToSet(signals) :
                          /\ r.symbol = t[2]
                          /\ r.signal_type = s.batch[s.idx]
                          /\ r.timestamp >= s.since
                accepted == SavedAfter(t) = s.saved + 1
            IN /\ accepted <=> ~dup
               /\ ~accepted => SavedAfter(t) = s.saved /\ signals' = signals
               /\ accepted =>
                    /\ s.since + DedupeHours <= s.ts
                    /\ s.ts <= now
                    /\ signals' = signals (+)
                          SetToBag({SignalRow(t[2], s.batch[s.idx], s.ts)})
                    /\ CopiesIn(SignalRow(t[2], s.batch[s.idx], s.ts), signals) = 0
    ]_vars

\* C1 witness: a pair was accepted, rejected inside the window (a task that
\* detected two signals saved one), and accepted again after the window.
C1_Witness ==
    /\ \E r1, r2 \in BagToSet(signals) :
          /\ r1.symbol = r2.symbol
          /\ r1.signal_type = r2.signal_type
          /\ r2.timestamp - r1.timestamp > DedupeHours
    /\ \E t \in SaveTasks : stask[t].ret = Some(<<2, 1>>)

\* C2: the store never holds two rows of the same (symbol, type) whose
\* timestamps are less than the dedupe window apart.
C2_NoTwoWithinWindow ==
    \A r1, r2 \in BagToSet(signals) :
        (r1.symbol = r2.symbol /\ r1.signal_type = r2.signal_type) =>
            /\ CopiesIn(r1, signals) = 1
            /\ r1 # r2 =>
                  \/ r1.timestamp - r2.timestamp >= DedupeHours
                  \/ r2.timestamp - r1.timestamp >= DedupeHours

(***************************************************************************)
(* Claims about the screening run                                          *)
(***************************************************************************)

\* Number of _process_stock evaluations in flight: the tasks inside the
\* semaphore's block.
InFlight == Cardinality({i \in 1..Len(tasks) : tasks[i].pc \in {"bars", "quote"}})

\* C3: during one screening run at most 10 per-symbol evaluations are in
\* flight at any instant, whatever the size of the universe (here a universe
\* of more than 10 stocks); the tasks beyond the ceiling wait.
C3_AtMostTenInFlight ==
    /\ InFlight <= 10
    /\ spc = "gather" => sem = 10 - InFlight
    /\ \A i \in 1..Len(tasks) : tasks[i].pc = "wait" => InFlight = 10 \/ sem > 0

\* C3 witness: ten evaluations in flight, one of them admitted after a wait
\* into the slot of an evaluation that returned.
C3_Witness ==
    /\ Len(tasks) > 10
    /\ InFlight = 10
    /\ \E i \in 11..Len(tasks) : tasks[i].pc \in {"bars", "quote"}
    /\ \E j \in 1..10 : tasks[j].pc = "done"

\* The response returned by the call, when it was computed by this call.
IsComputed == spc = "returned" /\ response # None /\ ~response[1].cached

\* The symbols whose evaluation met a timeout or an exception.
FailedSymbols ==
    {tasks[i].stock.symbol : i \in {j \in 1..Len(tasks) : tasks[j].outcome = "failed"}}

\* The result of evaluating one stock when nothing fails.
RowWithoutFaults(stock, req) ==
    LET bars == AfterBars(NewTask(stock, TRUE), req.ma_filter,
                    ProviderBars(market, stock.symbol, req.ma_filter, "ok"), "ok")
    IN IF bars.pc = "done" THEN bars.result
       ELSE AfterQuote(bars, req.ma_filter,
                ProviderQuote(market, stock.symbol, "ok"), "ok").result

\* The rows and total of the run of `req` over the universe of this run
\* without the stocks in `without`, nothing failing.
RunWithout(without, req) ==
    LET stocks == SelectSeq([i \in 1..Len(tasks) |-> tasks[i].stock],
                            LAMBDA st : st.symbol \notin without)
        got == SelectSeq([i \in 1..Len(stocks) |-> RowWithoutFaults(stocks[i], req)],
                         LAMBDA r : r # None)
        full == Sorted(FilterResults([i \in 1..Len(got) |-> got[i][1]], req),
                       req.sort_by, req.sort_order = "desc")
    IN [results |->
            [i \in 1..(IF Len(full) - req.offset < 0 THEN 0
                       ELSE IF Len(full) - req.offset < req.limit
                       THEN Len(full) - req.offset ELSE req.limit)
                |-> full[req.offset + i]],
        total |-> Len(full)]

\* C4: a symbol whose evaluation raises or times out does not abort the run;
\* the response is returned and its rows, their order and the total are those
\* of the same run over the universe without the failed symbols.
C4_FailureIsolated ==
    /\ spc = "returned" => response # None
    /\ IsComputed =>
        /\ response[1].results = RunWithout(FailedSymbols, request).results
        /\ response[1].total = RunWithout(FailedSymbols, request).total

\* C4 witness: a run returned two rows although the evaluation of the first
\* stock of the universe failed.
C4_Witness ==
    /\ IsComputed
    /\ Len(tasks) = 3
    /\ tasks[1].outcome = "failed"
    /\ Len(response[1].results) = 2

\* The data of stock `symbol` has every piece a row needs for `req`: bars,
\* enough of them for the window, a current price and an average that are
\* not zero, and a quote.
Available(symbol, req) ==
    LET held == market[symbol]
        period == MaPeriodMap(req.ma_filter)[1]
    IN /\ held.series.n > 0
       /\ held.series.n >= period
       /\ held.series.last # 0
       /\ (period - 1) * held.series.base + held.series.last # 0
       /\ held.quote # None

RowSymbols(rows) == {rows[i].symbol : i \in 1..Len(rows)}

\* C5: a symbol has a row only if its bars, its current price, MA value and
\* distance for the chosen window, and its quote are all there; a symbol that
\* lacks one is in neither the rows nor the total, and the call still returns
\* its response.
C5_RowOnlyIfAllPresent ==
    /\ \A i \in 1..Len(tasks) :
        /\ tasks[i].result # None => Available(tasks[i].stock.symbol, request)
        /\ tasks[i].pc = "done" /\ tasks[i].outcome # "failed"
              /\ Available(tasks[i].stock.symbol, request)
           => tasks[i].result # None
    /\ spc = "returned" => response # None
    /\ IsComputed =>
        /\ \A sym \in RowSymbols(response[1].results) : Available(sym, request)
        /\ response[1].total <=
              Cardinality({i \in 1..Len(tasks) :
                             Available(tasks[i].stock.symbol, request)})
        /\ request.distance_pct = 10000 /\ request.include_below
              /\ request.include_above
           => response[1].total =
                 Cardinality({i \in 1..Len(tasks) :
                                /\ Available(tasks[i].stock.symbol, request)
                                /\ tasks[i].outcome # "failed"})

\* C5 witness: no evaluation failed, one stock has too few bars, one has no
\* current price, and the response returned holds the one remaining row.
C5_Witness ==
    /\ IsComputed
    /\ Len(tasks) = 3
    /\ \A i \in 1..3 : tasks[i].outcome # "failed"
    /\ market[tasks[1].stock.symbol].series.n = 60
    /\ market[tasks[2].stock.symbol].series.last = 0
    /\ response[1].total = 1
    /\ RowSymbols(response[1].results) = {tasks[3].stock.symbol}

\* The rows of the run that passed the filters, sorted: the list the page is
\* cut from.
FullList ==
    Sorted(FilterResults(ValidResults([i \in 1..Len(tasks) |-> tasks[i].result]),
                         request),
           request.sort_by, request.sort_order = "desc")

\* C8: the rows of a computed response are rows[offset : offset + limit] of
\* the filtered and sorted list and total is the length of that list, which
\* does not depend on limit and offset; the page has at most limit rows and
\* is empty when offset >= total.
C8_PageOfFullList ==
    IsComputed =>
        LET page == response[1].results
            total == response[1].total
        IN /\ total = Len(FullList)
           /\ Len(page) <= request.limit
           /\ request.offset >= total => page = <<>>
           /\ request.offset < total =>
                Len(page) = (IF total - request.offset < request.limit
                             THEN total - request.offset ELSE request.limit)
           /\ \A i \in 1..Len(page) : page[i] = FullList[request.offset + i]

\* C8 witness: three rows in all, a page of limit 2 at offset 2 that holds
\* the third row only.
C8_Witness ==
    /\ IsComputed
    /\ request.limit = 2 /\ request.offset = 2
    /\ response[1].total = 3
    /\ Len(response[1].results) = 1

\* C8 witness: an offset past the total gives an empty page, the total kept.
C8_WitnessPastEnd ==
    /\ IsComputed
    /\ request.offset = 3
    /\ response[1].total = 3
    /\ response[1].results = <<>>

\* Position of a symbol in the universe the run was given.
UniversePosition(symbol) ==
    CHOOSE i \in 1..Len(tasks) : tasks[i].stock.symbol = symbol

\* Row a comes strictly before row b in ascending order of the key.
KeyBefore(sort_by, a, b) ==
    CASE sort_by = "symbol" -> StrLess(a.symbol, b.symbol)
      [] sort_by = "name" -> StrLess(a.name, b.name)
      [] sort_by = "price" -> a.price < b.price
      [] sort_by = "distance" -> Abs(a.distance_percent) < Abs(b.distance_percent)
      [] sort_by = "market_cap" ->
            (IF a.market_cap = None THEN 0 ELSE a.market_cap[1])
            < (IF b.market_cap = None THEN 0 ELSE b.market_cap[1])
      [] sort_by = "change" -> a.change_percent < b.change_percent

\* C9: the rows of a computed response are in the requested order of the
\* requested key, and rows with equal keys are in the order of their symbols
\* in the universe, in both directions and whatever the order in which the
\* evaluations returned.
C9_SortedStable ==
    IsComputed =>
        LET rows == response[1].results IN
        \A i \in 1..Len(rows) : \A j \in (i + 1)..Len(rows) :
            /\ request.sort_order = "asc"
                  => ~KeyBefore(request.sort_by, rows[j], rows[i])
            /\ request.sort_order = "desc"
                  => ~KeyBefore(request.sort_by, rows[i], rows[j])
            /\ ~KeyBefore(request.sort_by, rows[i], rows[j])
                  /\ ~KeyBefore(request.sort_by, rows[j], rows[i])
               => UniversePosition(rows[i].symbol) < UniversePosition(rows[j].symbol)

\* C9 witness: a descending order in which two rows with equal keys (no
\* market cap and a market cap of 0) stand in universe order behind the row
\* of the last stock of the universe, whose key is larger.
C9_Witness ==
    /\ IsComputed
    /\ request.sort_order = "desc"
    /\ request.sort_by = "market_cap"
    /\ Len(response[1].results) = 3
    /\ response[1].results[1].market_cap = Some(500)
    /\ response[1].results[2].market_cap = None
    /\ response[1].results[3].market_cap = Some(0)
    /\ UniversePosition(response[1].results[1].symbol) = 3

\* The position the distance percent d (in hundredths) stands for.
PositionOf(d) ==
    IF -50 < d /\ d < 50 THEN "at" ELSE IF d > 0 THEN "above" ELSE "below"

\* C10: a row is "at" iff |distance%| < 0.5, else "above" if distance% > 0,
\* else "below"; a row with distance% in (-0.5, 0) is "at", so include_above
\* and not include_below decides whether it is kept.
C10_PositionBands ==
    /\ \A i \in 1..Len(tasks) :
        tasks[i].result # None =>
            LET row == tasks[i].result[1] IN
            /\ row.position = PositionOf(row.distance_percent)
            /\ row.position \in {"at", "above", "below"}
            /\ -50 < row.distance_percent /\ row.distance_percent < 0
                  => row.position = "at"
            /\ IsComputed /\ request.limit = 100 /\ request.offset = 0
                  /\ -50 < row.distance_percent /\ row.distance_percent < 0
                  /\ -row.distance_percent <= request.distance_pct
               => (row \in {response[1].results[k] :
                              k \in 1..Len(response[1].results)}
                   <=> request.include_above)

\* C10 witness: a row 0.30 percent under its average is returned as "at" to a
\* request that excludes the rows below, next to a row exactly 0.50 percent
\* over its average that is "above".
C10_Witness ==
    /\ IsComputed
    /\ ~request.include_below /\ request.include_above
    /\ \E k \in 1..Len(response[1].results) :
        /\ response[1].results[k].distance_percent = -30
        /\ response[1].results[k].position = "at"
    /\ \E k \in 1..Len(response[1].results) :
        /\ response[1].results[k].distance_percent = 50
        /\ response[1].results[k].position = "above"

(***************************************************************************)
(* Claims about repeated screening calls                                   *)
(***************************************************************************)

\* The calls returned so far that computed a response for `req` and stored
\* its page in the cache.
StoredRuns(req) ==
    {k \in 1..Len(history) :
        /\ history[k].request = req
        /\ history[k].stored
        /\ ~history[k].response.cached}

LastStoredRun(req) ==
    CHOOSE k \in StoredRuns(req) : \A j \in StoredRuns(req) : j <= k

\* C6: after a run stored its page, a call with the same request parameters
\* that finds the entry still in the store (not expired, not invalidated)
\* returns cached = true, the rows of the stored run's page in the same
\* order, the same total and the timestamp stored with the page.
C6_RepeatServedFromCache ==
    [][(/\ spc = "cacheget"
        /\ spc' # "cacheget"
        /\ StoredRuns(request) # {}
        /\ cacheUp
        /\ ScreenerKey(request) \in DOMAIN cache)
       => LET first == history[LastStoredRun(request)] IN
          /\ spc' = "returned"
          /\ response' # None
          /\ response'[1].cached = TRUE
          /\ response'[1].results = first.response.results
          /\ response'[1].total = first.response.total
          /\ response'[1].filters = request
          /\ response'[1].cache_timestamp = Some(IsoFormat(first.at))]_vars

\* C6 witness: the second call returned the cached page of the first, a page
\* of one row out of a total of two, twelve hours after the first call and
\* after the provider's data changed.
C6_Witness ==
    /\ Len(history) = 2
    /\ history[1].stored /\ ~history[1].response.cached
    /\ history[2].request = history[1].request
    /\ history[2].response.cached
    /\ Len(history[2].response.results) = 1
    /\ history[2].response.total = 2
    /\ history[2].response.cache_timestamp = Some(IsoFormat(0))
    /\ history[2].at = 12
    /\ market[DefaultUniverse[1].symbol].quote = None

\* C7: every row of every response, computed or served from the cache for
\* the same request, has |distance_percent| <= request.distance_pct, is not
\* "below" when include_below is false and is neither "above" nor "at" when
\* include_above is false.
C7_RowsPassFilters ==
    \A k \in 1..Len(history) :
        LET req == history[k].request
            rows == history[k].response.results
        IN \A i \in 1..Len(rows) :
            /\ rows[i].distance_percent <= req.distance_pct
            /\ -rows[i].distance_percent <= req.distance_pct
            /\ ~req.include_below => rows[i].position # "below"
            /\ ~req.include_above => rows[i].position \notin {"above", "at"}

\* C7 witness: a response served from the cache to a request of distance 0.50
\* without the rows above: it holds the row 0.50 percent below its average
\* and not the row of the other stock, which is 0.30 percent below and "at".
C7_Witness ==
    /\ Len(history) = 2
    /\ history[2].response.cached
    /\ history[2].request.distance_pct = 50
    /\ ~history[2].request.include_above
    /\ Len(history[2].response.results) = 1
    /\ history[2].response.results[1].distance_percent = -50
    /\ history[2].response.results[1].position = "below"
    /\ market[DefaultUniverse[1].symbol].series.last = 9970
    /\ market[DefaultUniverse[1].symbol].quote # None

(***************************************************************************)
(* Claims about an unavailable cache                                       *)
(***************************************************************************)

\* The active stocks of the table, as get_universe lists them.
ActiveStocks ==
    LET active == SelectSeq(universe, LAMBDA row : row.is_active)
    IN [i \in 1..Len(active) |->
           [symbol |-> active[i].symbol, name |-> active[i].name,
            sector |-> active[i].sector]]

\* C11: while the cache store does not answer, no cache operation stops the
\* call: nothing is read from or written to the store, the universe comes
\* from the table, and screen returns cached = false with the rows and total
\* of the run on a working, empty cache.
C11_CacheDownSameResult ==
    ~cacheUp =>
        /\ \A k \in DOMAIN cache : cache[k] = StaleEntries(request)[k]
        /\ spc \in {"gather", "cacheset", "returned"}
              => [i \in 1..Len(tasks) |-> tasks[i].stock] = ActiveStocks
        /\ spc = "returned" => IsComputed
        /\ IsComputed =>
            /\ response[1].results = RunWithout(FailedSymbols, request).results
            /\ response[1].total = RunWithout(FailedSymbols, request).total
            /\ response[1].cache_timestamp = None
            /\ history[Len(history)].stored = FALSE

\* C11 witness: the store holds an entry for the request and one for the
\* universe but does not answer; the call returned two computed rows.
C11_Witness ==
    /\ ~cacheUp
    /\ ScreenerKey(request) \in DOMAIN cache
    /\ IsComputed
    /\ Len(tasks) = 3
    /\ Len(response[1].results) = 2
    /\ response[1].total = 2


(***************************************************************************)
(* Claims about the chart path                                             *)
(***************************************************************************)

\* C12: a chart call whose fetch returned non-empty bars ends by returning
\* the chart built from those bars (sliced to the period, resampled for the
\* weekly timeframe), whether the cache missed or does not answer; the step
\* that stores the chart cannot make the call fail.
C12_ChartReturnedOnMiss ==
    (cpc = "done" /\ cfull # <<>>)
        => cresult = Some(ChartReturned(BuildChart(creq, cfull)))

(***************************************************************************)
(* Claims about the universe manager                                       *)
(***************************************************************************)

\* C13: a get_universe call that started after remove_stock(s) returned
\* True returns no entry for s, under every interleaving of the universe
\* mutations with get_universe calls (no operation re-activates a row).
C13_RemovedNeverServed ==
    \A c \in UniverseCalls :
        (ucalls[c].op = "get" /\ ucalls[c].pc = "returned")
            => \A s \in ucalls[c].after :
                   \A i \in 1..Len(ucalls[c].result[1]) :
                       ucalls[c].result[1][i].symbol # s

(***************************************************************************)
(* Claims about the signal-detection sweep                                 *)
(***************************************************************************)

\* The symbols of a job's sweep whose evaluation failed: a provider,
\* detection or storage error ended detect_signals_for_stock.
FailedInSweep(job) == {s \in SweepSymbols : stask[<<job, s>>].pc = "failed"}

\* C14: when a sweep has summed up, its failure counter equals the number
\* of symbols whose evaluation failed (each of which contributed 0 to the
\* detected and saved totals without stopping the sweep).
C14_ErrorsCountFailures ==
    \A j \in Jobs :
        sweep[j].pc = "completed"
            => sweep[j].errors = Cardinality(FailedInSweep(j))

(***************************************************************************)
(* Claims about the market data service                                    *)
(***************************************************************************)

\* What each fetch method returns for a symbol the provider has no data
\* for: no quote, no bars.
NoDataValue ==
    CASE fname = "get_quote" -> ServiceGetQuote(QuoteCall(0, None, None)).value
      [] fname = "get_ohlcv" -> ServiceGetOhlcv(OhlcvCall(0, <<>>, None)).value
      [] fname = "get_ohlcv_for_indicators" ->
            ServiceGetOhlcvForIndicators(
                OhlcvForIndicatorsCall(0, <<>>, "200W", None)).value

\* The fetch methods of the market data service.
FetchMethods == {"get_quote", "get_ohlcv", "get_ohlcv_for_indicators"}

\* C15: get_quote, get_ohlcv and get_ohlcv_for_indicators always return to
\* their caller, within the configured timeout; after a timeout or a
\* provider exception they return what they return for a symbol without
\* data (no quote, no bars), on which the screening task of the symbol ends
\* without a row; otherwise they return the provider's answer.
C15_FetchNeverRaises ==
    fname \in FetchMethods =>
        /\ fret.kind = "return"
        /\ fret.elapsed <= MarketDataTimeout
        /\ (farg.duration > MarketDataTimeout \/ farg.error # None)
              => /\ fret.value = NoDataValue
                 /\ fname = "get_quote" =>
                       AfterQuote(NewTask(DefaultUniverse[1], TRUE), "20W",
                                  fret.value, "timeout").result = None
                 /\ fname # "get_quote" =>
                       AfterBars(NewTask(DefaultUniverse[1], TRUE), "20W",
                                 fret.value, "timeout").result = None
        /\ (farg.duration <= MarketDataTimeout /\ farg.error = None)
              => fret.value =
                    CASE fname = "get_quote" -> GetQuoteSync(farg.data)
                      [] fname = "get_ohlcv" -> farg.data
                      [] fname = "get_ohlcv_for_indicators" ->
                            OhlcvForIndicators(farg.data, farg.ma_period)

\* A bar fetch for indicators timed out on a provider that holds bars and
\* returned no bars when the timeout had passed.
C15_Witness ==
    /\ fname = "get_ohlcv_for_indicators"
    /\ farg.duration > MarketDataTimeout
    /\ farg.error = None
    /\ farg.data # <<>>
    /\ fret = ServiceReturn(<<>>, MarketDataTimeout)

(***************************************************************************)
(* Claims about chart resampling and slicing                               *)
(***************************************************************************)

\* The positions of the bars of a list that fall in the ISO week of `key`.
InWeekOf(ohlcv, key) ==
    {j \in 1..Len(ohlcv) : IsoCalendar(ohlcv[j].timestamp) = key}

\* True of the ten consecutive daily bars starting on Monday 2024-01-01.
TenDaysFromMonday(ohlcv) ==
    /\ Len(ohlcv) = 10
    /\ \A i \in 1..10 : ohlcv[i] = DailyBar(i - 1)

\* C16: for an ascending daily bar list, _resample_to_weekly returns one bar
\* per (ISO year, ISO week) of the input, in ascending key order and with
\* strictly increasing timestamps; each weekly bar has the open of the
\* week's first bar, the close and the timestamp of its last bar, the
\* maximum high, the minimum low and the sum of the volumes; the empty list
\* gives the empty list, and ten consecutive days from a Monday give two
\* bars, the first made of days 1 to 7.
C16_WeeklyAggregation ==
    fname = "_resample_to_weekly" =>
        /\ Len(fret) = Cardinality(WeekKeys(farg))
        /\ farg = <<>> => fret = <<>>
        /\ \A i \in 1..(Len(fret) - 1) :
              /\ WeekKeyLess(IsoCalendar(fret[i].timestamp),
                             IsoCalendar(fret[i + 1].timestamp))
              /\ fret[i].timestamp < fret[i + 1].timestamp
        /\ \A i \in 1..Len(fret) :
              LET idx == InWeekOf(farg, IsoCalendar(fret[i].timestamp))
                  first == CHOOSE j \in idx : \A k \in idx : j <= k
                  last == CHOOSE j \in idx : \A k \in idx : k <= j
              IN /\ idx # {}
                 /\ fret[i].open = farg[first].open
                 /\ fret[i].close = farg[last].close
                 /\ fret[i].timestamp = farg[last].timestamp
                 /\ \A j \in idx : /\ farg[j].high <= fret[i].high
                                    /\ fret[i].low <= farg[j].low
                 /\ \E j \in idx : farg[j].high = fret[i].high
                 /\ \E j \in idx : farg[j].low = fret[i].low
                 /\ fret[i].volume =
                       SumOver(idx, [j \in idx |-> farg[j].volume])
        /\ TenDaysFromMonday(farg) =>
              /\ Len(fret) = 2
              /\ InWeekOf(farg, IsoCalendar(fret[1].timestamp)) = 1..7

\* The ten days from Monday were resampled to two weekly bars, the first
\* closing at the seventh day's close with a high above its own day's.
C16_Witness ==
    /\ fname = "_resample_to_weekly"
    /\ TenDaysFromMonday(farg)
    /\ Len(fret) = 2
    /\ fret[1].timestamp = 6
    /\ fret[1].close = farg[7].close
    /\ fret[1].high > farg[7].high

(***************************************************************************)
(* Claims about the weekly indicator series                                *)
(***************************************************************************)

\* The series fields of the payload `k` of an indicator dict.
SeriesOf(indicators, k) == SeriesFields \cap DOMAIN indicators[k]

\* Entry i of the resampled series `out` carries weekly bar i's timestamp
\* and the value of the latest entry of `series` in that bar's ISO week, or
\* the absent value when the series has no entry in that week.
AlignedEntry(out, series, weekly_ohlcv, i) ==
    LET hits == {j \in 1..Len(series) :
                    IsoCalendar(series[j][1]) =
                        IsoCalendar(weekly_ohlcv[i].timestamp)}
    IN /\ out[i][1] = weekly_ohlcv[i].timestamp
       /\ hits = {} => out[i][2] = None
       /\ hits # {} =>
              \E j \in hits : /\ \A h \in hits : h <= j
                               /\ out[i][2] = series[j][2]

\* C17, as stated: after _resample_indicator_payload every value series of
\* the payload, one left empty by insufficient history included, has one
\* entry per weekly bar.
C17_EverySeriesAligned ==
    fname = "_resample_indicator_payload" =>
        \A k \in DOMAIN fret : \A f \in SeriesOf(fret, k) :
            Len(fret[k][f]) = Len(farg.weekly_ohlcv)

\* C17, corrected: when there is at least one weekly bar, every non-empty
\* value series of the payload is returned with one entry per weekly bar,
\* entry i carrying weekly bar i's timestamp and the value of the latest
\* source entry of that bar's ISO week, or the absent value; an empty series
\* stays empty, the other fields are untouched, and without weekly bars the
\* payload is returned as it was.
C17_NonEmptySeriesAligned ==
    fname = "_resample_indicator_payload" =>
        /\ DOMAIN fret = DOMAIN farg.indicators
        /\ farg.weekly_ohlcv = <<>> => fret = farg.indicators
        /\ farg.weekly_ohlcv # <<>> =>
              \A k \in DOMAIN fret :
                  /\ DOMAIN fret[k] = DOMAIN farg.indicators[k]
                  /\ \A f \in DOMAIN fret[k] \ SeriesFields :
                         fret[k][f] = farg.indicators[k][f]
                  /\ \A f \in SeriesOf(fret, k) :
                         IF farg.indicators[k][f] = <<>>
                         THEN fret[k][f] = <<>>
                         ELSE /\ Len(fret[k][f]) = Len(farg.weekly_ohlcv)
                              /\ \A i \in 1..Len(farg.weekly_ohlcv) :
                                     AlignedEntry(fret[k][f],
                                                  farg.indicators[k][f],
                                                  farg.weekly_ohlcv, i)

\* A payload was resampled to three weekly bars: its moving average, which
\* had entries in the first and the third week only, has three entries with
\* the absent value in the second, and its empty histogram stayed empty.
C17_Witness ==
    /\ fname = "_resample_indicator_payload"
    /\ Len(farg.weekly_ohlcv) = 3
    /\ Len(farg.indicators.ma_20w.values) = 2
    /\ Len(fret.ma_20w.values) = 3
    /\ fret.ma_20w.values[1][2] # None
    /\ fret.ma_20w.values[2][2] = None
    /\ farg.indicators.macd.histogram = <<>>
    /\ fret.macd.histogram = <<>>
    /\ Len(fret.macd.macd_line) = 3

(***************************************************************************)
(* Claims about the slicing of a chart to its period                       *)
(***************************************************************************)

\* The indicators get_stock_chart computed on the full history of the
\* chart call, before any slicing.
ComputedOnFull ==
    CalculateAllIndicators(cfull, creq.include_ma, creq.include_rsi,
                           creq.include_macd)

\* C18: in the chart path the bars and every indicator series are cut with
\* the same length: the bars are the last period_days bars of the full
\* history (all of them when there are no more), every series is the tail
\* of the computed series of at most that many entries, and a series that
\* had one entry per bar of the full history has one entry per sliced bar,
\* entry i carrying the timestamp of sliced bar i.  Stated on daily charts,
\* whose bars and series are the sliced ones.
C18_SlicedTogether ==
    (cchart # <<>> /\ creq.timeframe = "1D") =>
        /\ cchart.ohlcv = LastN(cfull, PeriodDays(creq.period))
        /\ DOMAIN cchart.indicators = DOMAIN ComputedOnFull
        /\ \A k \in DOMAIN cchart.indicators :
              \A f \in SeriesOf(cchart.indicators, k) :
                  LET series == ComputedOnFull[k][f]
                      out == cchart.indicators[k][f]
                  IN /\ Len(out) <= Len(cchart.ohlcv)
                     /\ out = LastN(series, Len(out))
                     /\ Len(series) = Len(cfull) =>
                            /\ Len(out) = Len(cchart.ohlcv)
                            /\ \A i \in 1..Len(out) :
                                   out[i][1] = cchart.ohlcv[i].timestamp

\* A daily three-month chart with moving averages and MACD was built from
\* 130 bars: the bars, the 20-week average and the three MACD series have
\* 63 entries each, the 50-week average none.
C18_Witness ==
    /\ cpc = "store"
    /\ creq.timeframe = "1D"
    /\ creq.period = "3M"
    /\ creq.include_ma /\ creq.include_macd
    /\ Len(cfull) = MaxBars
    /\ Len(cchart.ohlcv) = 63
    /\ Len(cchart.indicators["ma_20w"].values) = 63
    /\ Len(cchart.indicators["ma_50w"].values) = 0
    /\ Len(cchart.indicators["macd"].macd_line) = 63
    /\ Len(cchart.indicators["macd"].signal_line) = 63
    /\ Len(cchart.indicators["macd"].histogram) = 63
    /\ cchart.indicators["macd"].histogram[1][1] = cchart.ohlcv[1].timestamp

(***************************************************************************)
(* Claims about the indicator results                                      *)
(***************************************************************************)

\* C19: for every bar list, the empty one included, calculate_ma_result,
\* calculate_rsi_result and calculate_macd_result return a result and do
\* not raise: with fewer than period bars (MA), fewer than period + 1 bars
\* (RSI) or fewer than slow + signal bars (MACD) the value series are empty
\* and the current values absent (no distance, both RSI flags false), and
\* with enough bars the series have one entry per bar.
C19_InsufficientDataIsEmpty ==
    LET n == Len(farg.ohlcv_list) IN
    /\ fname = "calculate_ma_result" =>
          IF n < farg.period
          THEN /\ fret.values = <<>>
               /\ fret.current_value = None
               /\ fret.current_price = None
               /\ fret.distance_percent = None
          ELSE Len(fret.values) = n
    /\ fname = "calculate_rsi_result" =>
          IF n < farg.period + 1
          THEN /\ fret.values = <<>>
               /\ fret.current_value = None
               /\ ~fret.is_overbought
               /\ ~fret.is_oversold
          ELSE Len(fret.values) = n
    /\ fname = "calculate_macd_result" =>
          IF n < farg.slow_period + farg.signal_period
          THEN /\ fret.macd_line = <<>>
               /\ fret.signal_line = <<>>
               /\ fret.histogram = <<>>
               /\ fret.current_macd = None
               /\ fret.current_signal = None
               /\ fret.current_histogram = None
          ELSE /\ Len(fret.macd_line) = n
               /\ Len(fret.signal_line) = n
               /\ Len(fret.histogram) = n

\* The RSI of exactly `period` bars, one fewer than it needs, came back
\* empty.
C19_Witness ==
    /\ fname = "calculate_rsi_result"
    /\ Len(farg.ohlcv_list) = farg.period
    /\ fret.values = <<>>
    /\ fret.current_value = None
    /\ ~fret.is_overbought

\* The sum of the closes of bars lo..hi of a bar list.
CloseSum(ohlcv_list, lo, hi) == SumRange(CloseColumn(ohlcv_list), lo, hi)

\* The closes 10, 20, 30, 40, 50 of the example, in cents.
ExampleCloses == <<1000, 2000, 3000, 4000, 5000>>

\* C20: for n >= period closes, the moving-average result has one value
\* entry per bar; the entry of bar i is absent before the period-th bar and
\* from there on is the arithmetic mean of the bar's close and the period - 1
\* closes before it, to the cent; period 3 over the closes 10, 20, 30, 40,
\* 50 gives absent, absent, 20, 30, 40.
C20_SimpleMovingAverage ==
    (fname = "calculate_ma_result" /\ Len(farg.ohlcv_list) >= farg.period) =>
        LET n == Len(farg.ohlcv_list)
            period == farg.period
        IN /\ Len(fret.values) = n
           /\ \A i \in 1..n :
                 /\ fret.values[i][1] = farg.ohlcv_list[i].timestamp
                 /\ i < period => fret.values[i][2] = None
                 /\ i >= period =>
                       LET sum == CloseSum(farg.ohlcv_list, i - period + 1, i)
                           v == fret.values[i][2]
                       IN /\ v # None
                          /\ 2 * (period * v[1] - sum) <= period
                          /\ 2 * (sum - period * v[1]) <= period
           /\ (CloseColumn(farg.ohlcv_list) = ExampleCloses /\ period = 3) =>
                 [i \in 1..n |-> fret.values[i][2]]
                     = <<None, None, Some(2000), Some(3000), Some(4000)>>

\* The moving average of period 3 was computed over the closes 10, 20, 30,
\* 40, 50 and came back with five entries, the last of them 40.
C20_Witness ==
    /\ fname = "calculate_ma_result"
    /\ farg.period = 3
    /\ CloseColumn(farg.ohlcv_list) = ExampleCloses
    /\ Len(fret.values) = 5
    /\ fret.values[2][2] = None
    /\ fret.values[5][2] = Some(4000)

\* The gains and the losses of the window of `period` positions ending at
\* position i of a close series: the rises and the falls between adjacent
\* closes of the window, the first position of the series having neither.
WindowGain(prices, period, i) ==
    SumOver({j \in (i - period + 1)..i : j > 1},
            [j \in 2..Len(prices) |->
                IF prices[j] > prices[j - 1] THEN prices[j] - prices[j - 1]
                ELSE 0])

WindowLoss(prices, period, i) ==
    SumOver({j \in (i - period + 1)..i : j > 1},
            [j \in 2..Len(prices) |->
                IF prices[j] < prices[j - 1] THEN prices[j - 1] - prices[j]
                ELSE 0])

\* C21: for every close series the RSI is present (not NaN) at every
\* position from the period-th on, lies in [0, 100] there, is exactly 50
\* when the window has no rise and no fall and exactly 100 when it has
\* rises and no fall.
C21_RsiInRange ==
    fname = "rsi" =>
        \A i \in 1..Len(farg.prices) :
            IF i < farg.period THEN fret[i] = None
            ELSE LET gain == WindowGain(farg.prices, farg.period, i)
                     loss == WindowLoss(farg.prices, farg.period, i)
                 IN /\ fret[i] # None
                    /\ fret[i][1][2] > 0
                    /\ 0 <= fret[i][1][1]
                    /\ fret[i][1][1] <= 100 * fret[i][1][2]
                    /\ (gain = 0 /\ loss = 0) =>
                           fret[i][1][1] = 50 * fret[i][1][2]
                    /\ (gain > 0 /\ loss = 0) =>
                           fret[i][1][1] = 100 * fret[i][1][2]

\* The RSI of period 2 was computed over closes that stay level, then rise,
\* then fall: 50 at the second position, 100 at the third, and a value
\* strictly between 0 and 100 at the fourth.
C21_Witness ==
    /\ fname = "rsi"
    /\ farg.period = 2
    /\ farg.prices = <<1000, 1000, 1010, 990>>
    /\ fret[1] = None
    /\ fret[2] = Some(<<50, 1>>)
    /\ fret[3][1][1] = 100 * fret[3][1][2]
    /\ 0 < fret[4][1][1]
    /\ fret[4][1][1] < 100 * fret[4][1][2]

\* C22: the MACD line, the signal line and the histogram have one entry per
\* close of the input, and at every position the histogram is the MACD line
\* minus the signal line.
C22_HistogramIsDifference ==
    fname = "macd" =>
        /\ Len(fret.macd_line) = Len(farg.prices)
        /\ Len(fret.signal_line) = Len(farg.prices)
        /\ Len(fret.histogram) = Len(farg.prices)
        /\ \A i \in 1..Len(farg.prices) :
              fret.histogram[i] = fret.macd_line[i] - fret.signal_line[i]

\* The MACD of a provider history of 40 bars was computed with the default
\* periods, and its last histogram entry is not zero.
C22_Witness ==
    /\ fname = "macd"
    /\ farg.slow_period = MacdSlow
    /\ Len(farg.prices) = 40
    /\ Len(fret.histogram) = 40
    /\ fret.histogram[40] # 0
    /\ fret.histogram[40] = fret.macd_line[40] - fret.signal_line[40]

(***************************************************************************)
(* Claims about the signal detectors                                       *)
(***************************************************************************)

\* True when the list of signal types returned by a detector holds a type.
Fires(types, type) == \E i \in 1..Len(types) : types[i] = type

\* True of a 52-week extreme that is supplied: present and not zero.
Supplied(extreme) == extreme # None /\ extreme # Some(0)

CalledCloses == CloseColumn(farg.ohlcv_list)
CalledPeriod == MaPeriodMap(farg.ma_period)[1]

\* True when the close of bar i is below, at or above its moving average.
BelowMa(i) ==
    CalledPeriod * CalledCloses[i]
        < SumRange(CalledCloses, i - CalledPeriod + 1, i)

AboveMa(i) ==
    CalledPeriod * CalledCloses[i]
        > SumRange(CalledCloses, i - CalledPeriod + 1, i)

\* The later bars of the pairs of adjacent bars in the lookback window.
LookbackPairs ==
    (Len(CalledCloses) - farg.lookback + 1)..Len(CalledCloses)

\* C24: with at least period + lookback bars, detect_ma_crossover reports a
\* bullish crossover when a pair of adjacent bars of the lookback window has
\* the earlier close at or below its MA and the later close strictly above
\* its MA, and a bearish one on the mirror condition: it reports a signal
\* whenever a pair crosses either way, and the signal it reports is that of
\* a pair that crosses that way; with fewer bars it reports nothing.
C24_CrossoverAtOrBelow ==
    fname = "detect_ma_crossover" /\ MaPeriodMap(farg.ma_period) # None =>
        IF Len(CalledCloses) < CalledPeriod + farg.lookback THEN fret = None
        ELSE LET Bullish(i) == ~AboveMa(i - 1) /\ AboveMa(i)
                 Bearish(i) == ~BelowMa(i - 1) /\ BelowMa(i)
             IN /\ (\E i \in LookbackPairs : Bullish(i) \/ Bearish(i))
                      => fret # None
                /\ fret = Some("ma_crossover_bullish")
                      => \E i \in LookbackPairs : Bullish(i)
                /\ fret = Some("ma_crossover_bearish")
                      => \E i \in LookbackPairs : Bearish(i)

\* C24, corrected: with at least period + lookback bars, detect_ma_crossover
\* reports the crossover of the first pair of adjacent bars of the lookback
\* window that crosses: bullish when the earlier close is strictly below its
\* MA and the later close strictly above its MA, bearish on the mirror
\* condition; a pair whose earlier close is exactly at its MA does not
\* cross.  With no such pair, with fewer bars or with an unknown period it
\* reports nothing.
C24_CrossoverStrict ==
    fname = "detect_ma_crossover" =>
        IF MaPeriodMap(farg.ma_period) = None THEN fret = None
        ELSE IF Len(CalledCloses) < CalledPeriod + farg.lookback
        THEN fret = None
        ELSE LET Bullish(i) == BelowMa(i - 1) /\ AboveMa(i)
                 Bearish(i) == AboveMa(i - 1) /\ BelowMa(i)
                 Crossing(i) == Bullish(i) \/ Bearish(i)
             IN /\ fret = None <=> ~\E i \in LookbackPairs : Crossing(i)
                /\ \A i \in LookbackPairs :
                      (Crossing(i) /\ \A j \in LookbackPairs :
                                          j < i => ~Crossing(j))
                          => fret = IF Bullish(i)
                                    THEN Some("ma_crossover_bullish")
                                    ELSE Some("ma_crossover_bearish")

\* The detector was called on 102 bars whose close rose from below the
\* 20-week average to above it one bar before the last, and reported the
\* bullish crossover of that earlier pair.
C24_Witness ==
    /\ fname = "detect_ma_crossover"
    /\ farg.ma_period = "20W"
    /\ Len(CalledCloses) = 102
    /\ CalledCloses[100] = 900
    /\ CalledCloses[101] = 1100
    /\ CalledCloses[102] = 1100
    /\ fret = Some("ma_crossover_bullish")

\* The MACD and signal lines of the bars detect_macd_signal was called
\* with.
CalledMacd ==
    Macd(CloseColumn(farg.ohlcv_list), MacdFast, MacdSlow, MacdSignal)

\* The MACD line minus the signal line at the bar `back` bars before the
\* last.
MacdOverSignal(back) ==
    CalledMacd.macd_line[Len(farg.ohlcv_list) - back]
        - CalledMacd.signal_line[Len(farg.ohlcv_list) - back]

\* C25: with at least 35 bars, detect_macd_signal reports a bullish cross
\* when the MACD line is at or below the signal line at the previous bar and
\* strictly above it at the current bar, and a bearish cross on the mirror
\* condition; with fewer bars it reports nothing.
C25_CrossAtOrBelow ==
    fname = "detect_macd_signal" =>
        IF Len(farg.ohlcv_list) < 35 THEN fret = None
        ELSE /\ (MacdOverSignal(1) <= 0 /\ MacdOverSignal(0) > 0)
                    => fret = Some("macd_bullish_cross")
             /\ (MacdOverSignal(1) >= 0 /\ MacdOverSignal(0) < 0)
                    => fret = Some("macd_bearish_cross")

\* C25, corrected: with at least 35 bars, detect_macd_signal reports a
\* bullish cross exactly when the MACD line is strictly below the signal
\* line at the previous bar and strictly above it at the current bar, a
\* bearish cross exactly on the mirror condition, and nothing otherwise:
\* lines that are equal at the previous bar do not cross.  With fewer than
\* 35 bars it reports nothing.
C25_CrossStrict ==
    fname = "detect_macd_signal" =>
        IF Len(farg.ohlcv_list) < 35 THEN fret = None
        ELSE /\ fret = Some("macd_bullish_cross")
                    <=> (MacdOverSignal(1) < 0 /\ MacdOverSignal(0) > 0)
             /\ fret = Some("macd_bearish_cross")
                    <=> (MacdOverSignal(1) > 0 /\ MacdOverSignal(0) < 0)
             /\ fret \in {None, Some("macd_bullish_cross"),
                          Some("macd_bearish_cross")}

\* The detector was called on 35 bars whose MACD line was below the signal
\* line one bar before the last and above it at the last, and reported the
\* bullish cross.
C25_Witness ==
    /\ fname = "detect_macd_signal"
    /\ Len(farg.ohlcv_list) = 35
    /\ MacdOverSignal(1) < 0
    /\ MacdOverSignal(0) > 0
    /\ fret = Some("macd_bullish_cross")

\* The RSI at the bar `back` bars before the last of the bars
\* detect_rsi_signal was called with, as an optional fraction.
CalledRsi(back) ==
    RsiSeries(CloseColumn(farg.ohlcv_list), RsiPeriod)[Len(farg.ohlcv_list)
                                                           - back]

\* previous >= 30 and current < 30; previous <= 70 and current > 70.
CrossedDownThrough30 ==
    /\ CalledRsi(1)[1][1] >= 30 * CalledRsi(1)[1][2]
    /\ CalledRsi(0)[1][1] < 30 * CalledRsi(0)[1][2]

CrossedUpThrough70 ==
    /\ CalledRsi(1)[1][1] <= 70 * CalledRsi(1)[1][2]
    /\ CalledRsi(0)[1][1] > 70 * CalledRsi(0)[1][2]

\* C26: given at least 15 bars and a current and a previous RSI,
\* detect_rsi_signal reports RSI_OVERSOLD if and only if the previous RSI is
\* at least 30 and the current one below 30, otherwise RSI_OVERBOUGHT if and
\* only if the previous RSI is at most 70 and the current one above 70, and
\* otherwise nothing: one signal at most, and none while the RSI is on the
\* same side of a threshold at both bars.
C26_RsiCrossings ==
    (/\ fname = "detect_rsi_signal"
     /\ Len(farg.ohlcv_list) >= 15
     /\ CalledRsi(0) # None
     /\ CalledRsi(1) # None)
        => /\ fret = Some("rsi_oversold") <=> CrossedDownThrough30
           /\ fret = Some("rsi_overbought")
                  <=> (~CrossedDownThrough30 /\ CrossedUpThrough70)
           /\ fret \in {None, Some("rsi_oversold"), Some("rsi_overbought")}

\* The detector was called on 15 bars whose RSI was exactly 30 at the bar
\* before the last and below 30 at the last, and reported the oversold
\* signal.
C26_Witness ==
    /\ fname = "detect_rsi_signal"
    /\ Len(farg.ohlcv_list) = 15
    /\ CalledRsi(1) = Some(<<3000, 100>>)
    /\ CrossedDownThrough30
    /\ fret = Some("rsi_oversold")

\* The bars calculate_all_indicators was called with, as the frame its
\* standalone calculations work on.
CalledFrame == OhlcvToDataframe(farg.ohlcv_list)

\* The result holds the indicator `name` exactly when `flag` is set, and
\* then with the payload `standalone`.
PresentIffAndEqual(name, flag, standalone) ==
    /\ name \in DOMAIN fret <=> flag
    /\ flag => fret[name] = standalone

\* C27: the result of calculate_all_indicators holds the four moving
\* average results (over 100, 250, 500 and 1000 daily bars) if and only if
\* include_ma, the RSI result if and only if include_rsi and the MACD result
\* if and only if include_macd, and each result it holds is what the
\* standalone calculation gives on the same bars, whatever the other flags.
C27_RequestedSubset ==
    fname = "calculate_all_indicators" =>
        /\ PresentIffAndEqual("ma_20w", farg.include_ma,
                              MaPayload(CalledFrame, 100))
        /\ PresentIffAndEqual("ma_50w", farg.include_ma,
                              MaPayload(CalledFrame, 250))
        /\ PresentIffAndEqual("ma_100w", farg.include_ma,
                              MaPayload(CalledFrame, 500))
        /\ PresentIffAndEqual("ma_200w", farg.include_ma,
                              MaPayload(CalledFrame, 1000))
        /\ PresentIffAndEqual("rsi", farg.include_rsi,
                              RsiPayload(CalledFrame, 14))
        /\ PresentIffAndEqual("macd", farg.include_macd,
                              MacdPayload(CalledFrame, 12, 26, 9))

\* calculate_all_indicators was called on 100 bars for the RSI alone and
\* returned the RSI result, with values, and nothing else.
C27_Witness ==
    /\ fname = "calculate_all_indicators"
    /\ Len(farg.ohlcv_list) = 100
    /\ ~farg.include_ma
    /\ farg.include_rsi
    /\ ~farg.include_macd
    /\ DOMAIN fret = {"rsi"}
    /\ fret.rsi.values # <<>>

\* The step in which cache_service.get answers the running screen() call
\* with a page.
ScreenerCacheHit ==
    /\ spc = "cacheget"
    /\ spc' # "cacheget"
    /\ CacheGet(cache, cacheUp, ScreenerKey(request)) # None

\* C28: on a screener cache hit screen() returns at once: the universe is
\* neither read nor initialized (the call never comes to its universe step
\* and the table stays as it is), no task is started and so the provider is
\* not asked, nothing is computed for the cache and nothing is written to
\* it, and the table and the cache store are left unchanged.
C28_HitShortCircuits ==
    [][ScreenerCacheHit =>
            /\ spc' = "returned"
            /\ response' # None
            /\ response'[1].cached
            /\ history'[Len(history')].stored = FALSE
            /\ tasks = <<>>
            /\ tasks' = <<>>
            /\ pending' = None
            /\ UNCHANGED <<universe, market, cache, cacheUp, sem, pfaults>>]_vars

\* The second call was answered from the cache, which still holds the
\* page, and no task was started for it.
C28_Witness ==
    /\ spc = "returned"
    /\ runs = 2
    /\ response # None
    /\ response[1].cached
    /\ tasks = <<>>
    /\ ScreenerKey(request) \in DOMAIN cache
    /\ history[2].stored = FALSE
    /\ history[2].at > history[1].at

\* Task i of the running screen() call moves on in this step.
TaskMoves(i) ==
    /\ Len(tasks') = Len(tasks)
    /\ tasks'[i].pc # tasks[i].pc

\* The bars the provider returns for the stock of task i when it answers.
BarsOfTask(i) ==
    ProviderBars(market, tasks[i].stock.symbol, request.ma_filter, "ok")

\* C29: one symbol's evaluation goes through its steps in the order bars
\* fetch, MA distance, quote fetch, classification, one step at a time (the
\* symbol has one task, which is at one position): the task awaits the
\* bars, then either ends or holds the MA distance and awaits the quote,
\* then ends, and a row is built only in the step that ends the quote
\* fetch, classified from the distance computed before.  The quote fetch is
\* issued only when the bars came back non-empty and the price, the
\* average and the distance computed from them are all present.
C29_StepsInOrder ==
    [][/\ \A i, j \in 1..Len(tasks) :
              tasks[i].stock.symbol = tasks[j].stock.symbol => i = j
       /\ \A i \in 1..Len(tasks) :
              TaskMoves(i) =>
                  /\ <<tasks[i].pc, tasks'[i].pc>> \in
                         {<<"wait", "bars">>, <<"bars", "quote">>,
                          <<"bars", "done">>, <<"quote", "done">>}
                  /\ tasks'[i].pc = "quote" =>
                         /\ BarsOfTask(i) # <<>>
                         /\ tasks'[i].calc =
                                Some(GetMaDistance(BarsOfTask(i),
                                                   request.ma_filter))
                         /\ \A k \in 1..3 : tasks'[i].calc[1][k] # None
                  /\ tasks'[i].result # None =>
                         /\ tasks[i].pc = "quote"
                         /\ tasks[i].calc # None
                         /\ tasks'[i].result[1].distance_percent
                                = tasks[i].calc[1][3][1]
                         /\ tasks'[i].result[1].position
                                = Position(tasks[i].calc[1][3][1])]_vars

\* One task has gone through bars, distance, quote and classification and
\* holds its row, another awaits its quote, and a third ended after its
\* bars without a quote fetch.
C29_Witness ==
    /\ spc = "gather"
    /\ Len(tasks) = 3
    /\ \E i, j, k \in 1..3 :
          /\ tasks[i].pc = "done"
          /\ tasks[i].result # None
          /\ tasks[j].pc = "quote"
          /\ tasks[j].calc # None
          /\ tasks[k].pc = "done"
          /\ tasks[k].outcome = "absent"
          /\ BarsOfTask(k) = <<>>

\* How far a symbol's evaluation has come: waiting for a slot, bars asked
\* for, quote asked for, returned.
StepRank(pc) ==
    CASE pc = "wait" -> 0
      [] pc = "bars" -> 1
      [] pc = "quote" -> 2
      [] pc = "done" -> 3

\* A provider call of the run fails or times out in this step.
ProviderCallFails ==
    /\ pfaults' = pfaults + 1
    /\ cacheUp' = cacheUp

C31_SlotsAndSessions ==
    /\ StocksInFlight(dtasks) <= 5
    /\ dpc = "gather" => dsem = 5 - StocksInFlight(dtasks)
    /\ \A s \in DOMAIN sessions :
          /\ sessions[s].openers = {s}
          /\ sessions[s].users \subseteq {s}
    /\ \A i \in 1..Len(dtasks) :
          /\ dtasks[i].pc = "save" =>
                 i \in DOMAIN sessions /\ sessions[i].open
          /\ dtasks[i].pc = "done" =>
                 (i \in DOMAIN sessions => ~sessions[i].open)
    /\ dpc \in {"gather", "done"} => ~sessions[0].open

\* Five tasks are in their slots, two of them writing through sessions of
\* their own, while the sixth waits and one that had been let in earlier
\* has returned with its session closed.
C31_Witness ==
    /\ dpc = "gather"
    /\ StocksInFlight(dtasks) = 5
    /\ dsem = 0
    /\ \E i, j, k \in 1..Len(dtasks) :
          /\ i # j
          /\ dtasks[i].pc = "save"
          /\ dtasks[j].pc = "save"
          /\ sessions[i].open
          /\ sessions[j].open
          /\ sessions[i].users = {i}
          /\ dtasks[k].pc = "done"
          /\ dtasks[k].outcome = "saved"
          /\ ~sessions[k].open

\* The pair of bars i - 1, i crosses its moving average upward, downward.
CrossesUp(i) == BelowMa(i - 1) /\ AboveMa(i)
CrossesDown(i) == AboveMa(i - 1) /\ BelowMa(i)

\* The later bars of the pairs of the lookback window that cross.
QualifyingPairs == {i \in LookbackPairs : CrossesUp(i) \/ CrossesDown(i)}

\* C32: when several pairs of adjacent bars in the lookback window cross,
\* detect_ma_crossover returns one signal, that of the earliest of them in
\* the window, also when a later pair of the window crosses the other way.
C32_EarliestPairWins ==
    (/\ fname = "detect_ma_crossover"
     /\ MaPeriodMap(farg.ma_period) # None
     /\ Len(CalledCloses) >= CalledPeriod + farg.lookback
     /\ Cardinality(QualifyingPairs) >= 2)
        => \E i \in QualifyingPairs :
              /\ \A j \in QualifyingPairs : i <= j
              /\ fret = IF CrossesUp(i) THEN Some("ma_crossover_bullish")
                        ELSE Some("ma_crossover_bearish")

\* The detector looked back over three pairs, of which the first crossed
\* upward, the second downward and the third upward again, and reported the
\* upward crossover of the first.
C32_Witness ==
    /\ fname = "detect_ma_crossover"
    /\ farg.lookback = 3
    /\ Len(CalledCloses) = 103
    /\ Cardinality(QualifyingPairs) = 3
    /\ CrossesUp(101)
    /\ CrossesDown(102)
    /\ CrossesUp(103)
    /\ fret = Some("ma_crossover_bullish")

\* C33: for the RSI with period p the value is absent at exactly the first
\* p positions: the positions 0 to p - 1 counted from 0 (here 1 to p) have
\* no value, and the first value, at position p (here p + 1), is computed
\* from p close-to-close deltas and so needs p + 1 closes.
C33_AbsentForFirstPeriod ==
    fname = "rsi" =>
        \A i \in 1..Len(farg.prices) :
            fret[i] = None <=> i <= farg.period

\* The closes calculate_ma_result was called with, and the sum of the last
\* `period` of them.
MaCalledCloses == CloseColumn(farg.ohlcv_list)
MaCalledSum == SumLast(MaCalledCloses, farg.period)

\* C34: for bars of at least `period`, the MA result has its current price
\* and its current MA, and its distance percent is (current price - current
\* MA) / current MA * 100 rounded to 2 decimals (here in hundredths of a
\* percent); the distance is absent only when the price or the MA is, not
\* because one of them is zero.
C34_DistanceUnlessAbsent ==
    (/\ fname = "calculate_ma_result"
     /\ Len(farg.ohlcv_list) >= farg.period)
        => /\ fret.current_price # None
           /\ fret.current_value # None
           /\ MaCalledSum # 0 =>
                  fret.distance_percent =
                      Some(RoundDiv(10000 * (MaCalledCloses[Len(MaCalledCloses)]
                                                 * farg.period - MaCalledSum),
                                    MaCalledSum))

\* The base TTL that the settings give a method of CacheTTL.
BaseTtl(method, settings) ==
    CASE method = "quote" -> settings.cache_ttl_quote
      [] method = "indicators" -> settings.cache_ttl_indicators
      [] method = "screener" -> settings.cache_ttl_screener
      [] method = "ohlcv_daily" -> settings.cache_ttl_ohlcv_daily
      [] method = "ohlcv_weekly" -> settings.cache_ttl_ohlcv_weekly
      [] method = "universe" -> settings.cache_ttl_universe

\* Monday to Friday, between 09:30 and 16:00 inclusive.
MarketIsOpen(dt) ==
    /\ dt.weekday \in 0..4
    /\ \/ dt.minute \in (9 * 60 + 30)..(16 * 60 - 1)
       \/ dt.minute = 16 * 60 /\ ~dt.late

\* C35: the TTL of a quote, indicator or screener entry is the configured
\* base TTL while the market is open (Monday to Friday, 09:30 to 16:00
\* inclusive, Eastern time) and the base TTL times the off-hours multiplier
\* otherwise; the TTL of daily history, weekly history and the universe is
\* the base TTL whether the market is open or closed.
C35_TtlByMarketHours ==
    fname = "cache_ttl" =>
        /\ farg.method \in {"quote", "indicators", "screener"} =>
              fret = IF MarketIsOpen(farg.dt)
                     THEN BaseTtl(farg.method, farg.settings)
                     ELSE BaseTtl(farg.method, farg.settings)
                          * farg.settings.cache_ttl_off_hours_multiplier
        /\ farg.method \in {"ohlcv_daily", "ohlcv_weekly", "universe"} =>
              fret = BaseTtl(farg.method, farg.settings)

\* A quote entry written on a Saturday morning under the default settings
\* lives for an hour, one written at the closing instant of a Friday for
\* five minutes.
C35_Witness ==
    /\ fname = "cache_ttl"
    /\ farg.method = "quote"
    /\ farg.settings = DefaultSettings
    /\ \/ farg.dt.weekday = 5 /\ farg.dt.minute = 12 * 60 /\ fret = 3600
       \/ /\ farg.dt = [weekday |-> 4, minute |-> 16 * 60, late |-> FALSE]
          /\ fret = 300

\* Task i of the fan-out waits for a slot of the semaphore.
WaitsForSlot(i) == i \in DOMAIN tasks /\ tasks[i].pc = "wait"

\* Task i of the fan-out has acquired a slot, and maybe left it again.
HasAcquired(i) == i \in DOMAIN tasks /\ tasks[i].pc \in {"bars", "quote", "done"}

\* During the fan-out every slot taken from the semaphore is held by a task
\* that has not returned, whatever the exits of the others were.
SlotsReleasedOnExit ==
    spc = "gather" => sem + Holding(tasks) = ScreenConcurrency

\* The response exists only when every task of the fan-out has returned.
ResponseAfterAllTasks ==
    (spc \in {"cacheset", "returned"} \/ response # None) =>
        \A i \in 1..Len(tasks) : tasks[i].pc = "done"

\* C36: provided every provider call returns or hits its timeout, the
\* screening run terminates: every task that waits for a slot of the
\* semaphore eventually acquires it, a task releases its slot on every exit
\* (row, no result, exception), and screen returns its response, which it
\* does only after all tasks of the fan-out have completed.
C36_RunTerminates ==
    /\ []SlotsReleasedOnExit
    /\ []ResponseAfterAllTasks
    /\ WaitsForSlot(ScreenConcurrency + 1) ~> HasAcquired(ScreenConcurrency + 1)
    /\ \A i \in 1..(ScreenConcurrency + 1) : []<>~WaitsForSlot(i)
    /\ <>(spc = "returned" /\ response # None)

\* The run returned after a task had waited for a slot and then built a row,
\* while other tasks left with no result and with an exception.
C36_Witness ==
    /\ spc = "returned"
    /\ Len(tasks) > ScreenConcurrency
    /\ tasks[ScreenConcurrency + 1].outcome = "row"
    /\ \E i \in 1..Len(tasks) : tasks[i].outcome = "absent"
    /\ \E i \in 1..Len(tasks) : tasks[i].outcome = "failed"
    /\ sem = ScreenConcurrency

\* The provider call that the service method called on its own started.
StartedCall ==
    IF fname = "get_quote"
    THEN QuoteCall(farg.duration, farg.data, farg.error)
    ELSE OhlcvForIndicatorsCall(farg.duration, farg.data, farg.ma_period,
                                farg.error)

\* C37: the provider calls that execute for one screening run never exceed
\* the ceiling of 10, also when calls time out: when get_quote or
\* get_ohlcv_for_indicators has returned to _process_stock, which then may
\* release the symbol's slot, the provider call that it started is not
\* running any more.
C37_NoCallOutlivesItsSlot ==
    fname \in {"get_quote", "get_ohlcv_for_indicators"} =>
        ~ThreadRunning(StartedCall, fret.elapsed)

\* The signal types among the first k emissions of a batch.
TypesUpTo(batch, k) == {batch[j] : j \in 1..k}

====
